---- MODULE Spec2Model ----
(***************************************************************************)
(* Model of prod-langgraph: the Stream Transcoder (StreamProcessor), the   *)
(* example graph (GraphOrchestrator) and the hand-off graph                *)
(* (HandoffsGraphOrchestrator) running on the checkpointed superstep       *)
(* engine they are compiled for.                                           *)
(***************************************************************************)
EXTENDS Integers, Sequences, FiniteSets, TLC

(***************************************************************************)
(* Bounds                                                                  *)
(***************************************************************************)
MaxChunks == 3          \* chunks one graph stream produces
MaxEntries == 2         \* entries in one "updates" payload
MaxOps == 2             \* invocations started on one thread
MaxHops == 2            \* agent runs in one hand-off invocation
MaxQuestions == 2       \* questions asked on one thread of the example graph
MaxSteps == 4           \* supersteps the engine gives one hand-off invocation

(***************************************************************************)
(* Part 1.  StreamProcessor.astream_events                                 *)
(***************************************************************************)
VARIABLES
    sp_pc,          \* position of the async generator astream_events
    yielded,        \* events yielded so far to the consumer, in order
    status,         \* local `status` of astream_events
    events,         \* events of the current update chunk not yet yielded
    gr_started,     \* self._graph.astream(...) has been entered
    gr_chunks,      \* number of chunks the graph stream has produced
    gr_interrupted  \* the graph stream has reported an interrupt

streamVars == <<sp_pc, yielded, status, events, gr_started, gr_chunks, gr_interrupted>>

\* The checkpointed engine shared by the example and the hand-off graph
VARIABLES
    store,          \* checkpointer: thread -> checkpoints in the order written
    interrupts,     \* thread -> interrupts pending on the latest checkpoint
    run,            \* thread -> the invocation in flight (position, locals)
    result,         \* thread -> what the last ainvoke/aresume gave its caller
    ops             \* thread -> number of invocations started

engineVars == <<store, interrupts, run, result, ops>>

\* The calls of ChatService on the checkpointer (listing, deleting, purging)
VARIABLES
    reply,          \* thread -> what the last service call gave its caller
    del             \* thread -> a delete call between its read and its write

serviceVars == <<reply, del>>

\* What lies beside the calls above: the writes of the checkpointer to its
\* database, the consumer of the event stream, and the review step of the
\* example subgraph taken on its own
VARIABLES
    lost,           \* thread -> positions in store whose write to the database failed
    gr_writing,     \* the graph stream has a checkpoint write in progress
    gr_store,       \* the checkpoints written by the graph stream
    review,         \* the subgraph of the example graph from HumanReview on
    sse             \* sse_generator: its position and the SSE texts it has yielded

sideVars == <<lost, gr_writing, gr_store, review, sse>>

vars == <<sp_pc, yielded, status, events, gr_started, gr_chunks, gr_interrupted,
          store, interrupts, run, result, ops, reply, del,
          lost, gr_writing, gr_store, review, sse>>

\* SSEEventType values used by the processor
GRAPH_START == "graph_start"
GRAPH_END == "graph_end"
NODE_END == "node_end"
TOKEN == "token"
INTERRUPT == "interrupt"
ERROR == "error"

\* state.values["answer"] / last message content read after the stream
Answers == {"", "answer"}

StreamEvent(e) == [event |-> e, status |-> "", answer |-> ""]

\* variant: graph_end always reports a completed run
GraphEndEvent_AlwaysCompleted(st, ans) ==
    [event |-> GRAPH_END, status |-> "completed", answer |-> ans]

GraphEndEvent(st, ans) == [event |-> GRAPH_END, status |-> st, answer |-> ans]

\* one chunk of graph.astream(stream_mode=["messages","updates"]):
\*   mode "messages": token = the message is an AIMessageChunk with content
\*   mode "updates":  interrupt = "__interrupt__" in payload, n = entries
Chunks ==
    [mode : {"messages"}, token : BOOLEAN, interrupt : {FALSE}, n : {0}]
    \cup [mode : {"updates"}, token : {FALSE}, interrupt : BOOLEAN, n : 1..MaxEntries]

\* _process_message_event: a TOKEN event for a non-empty AIMessageChunk, else None
_process_message_event(payload) ==
    IF payload.token THEN <<StreamEvent(TOKEN)>> ELSE <<>>

\* _process_update_event: one INTERRUPT per entry of payload["__interrupt__"],
\* otherwise one NODE_END per node of the payload
_process_update_event(payload) ==
    IF payload.interrupt
    THEN [i \in 1..payload.n |-> StreamEvent(INTERRUPT)]
    ELSE [i \in 1..payload.n |-> StreamEvent(NODE_END)]

StreamInit ==
    /\ sp_pc = "start"
    /\ yielded = <<>>
    /\ status = "completed"
    /\ events = <<>>
    /\ gr_started = FALSE
    /\ gr_chunks = 0
    /\ gr_interrupted = FALSE

\* variant: the generator enters the graph stream without yielding graph_start
YieldGraphStart_Silent ==
    /\ sp_pc = "start"
    /\ status' = "completed"
    /\ sp_pc' = "loop"
    /\ UNCHANGED <<yielded, events, gr_started, gr_chunks, gr_interrupted>>
    /\ UNCHANGED <<engineVars, serviceVars, sideVars>>

\* lines 32-42: locals are initialised and graph_start is yielded
YieldGraphStart ==
    /\ sp_pc = "start"
    /\ yielded' = Append(yielded, StreamEvent(GRAPH_START))
    /\ status' = "completed"
    /\ sp_pc' = "loop"
    /\ UNCHANGED <<events, gr_started, gr_chunks, gr_interrupted>>
    /\ UNCHANGED <<engineVars, serviceVars, sideVars>>

\* lines 46-67: the graph stream delivers one chunk, which is transcoded
NextChunk(chunk) ==
    /\ sp_pc = "loop"
    /\ gr_chunks < MaxChunks
    /\ gr_started' = TRUE
    /\ gr_chunks' = gr_chunks + 1
    /\ gr_interrupted' = (gr_interrupted \/ chunk.interrupt)
    /\ events' = IF chunk.mode = "messages"
                 THEN _process_message_event(chunk)
                 ELSE _process_update_event(chunk)
    /\ sp_pc' = IF events' = <<>> THEN "loop" ELSE "emit"
    /\ UNCHANGED <<yielded, status>>
    /\ UNCHANGED <<engineVars, serviceVars, sideVars>>

\* lines 62, 68-71: yield the next event of the chunk
YieldEvent ==
    /\ sp_pc = "emit"
    /\ events # <<>>
    /\ status' = IF Head(events).event = INTERRUPT THEN "interrupted" ELSE status
    /\ yielded' = Append(yielded, Head(events))
    /\ events' = Tail(events)
    /\ sp_pc' = IF Tail(events) = <<>> THEN "loop" ELSE "emit"
    /\ UNCHANGED <<gr_started, gr_chunks, gr_interrupted>>
    /\ UNCHANGED <<engineVars, serviceVars, sideVars>>

\* variant: the except block yields the error event but does not return
StreamRaises_NoReturn ==
    /\ sp_pc = "loop"
    /\ gr_started' = TRUE
    /\ yielded' = Append(yielded, StreamEvent(ERROR))
    /\ sp_pc' = "end"
    /\ UNCHANGED <<status, events, gr_chunks, gr_interrupted>>
    /\ UNCHANGED <<engineVars, serviceVars, sideVars>>

\* lines 76-84: the graph stream raises; an error event is yielded and the
\* generator returns
StreamRaises ==
    /\ sp_pc = "loop"
    /\ gr_started' = TRUE
    /\ yielded' = Append(yielded, StreamEvent(ERROR))
    /\ sp_pc' = "done"
    /\ UNCHANGED <<status, events, gr_chunks, gr_interrupted>>
    /\ UNCHANGED <<engineVars, serviceVars, sideVars>>

\* lines 73-74, 86-99: the stream is exhausted, aget_state shows a pending
\* node (state.next) and an interrupt event is yielded
StreamEndsInterrupted ==
    /\ sp_pc = "loop"
    /\ gr_interrupted
    /\ gr_started' = TRUE
    /\ status' = "interrupted"
    /\ yielded' = Append(yielded, StreamEvent(INTERRUPT))
    /\ sp_pc' = "end"
    /\ UNCHANGED <<events, gr_chunks, gr_interrupted>>
    /\ UNCHANGED <<engineVars, serviceVars, sideVars>>

\* lines 73-74, 86-89: the stream is exhausted and aget_state raises; the
\* exception leaves the generator (it is outside the try block)
GetStateRaises ==
    /\ sp_pc = "loop"
    /\ gr_started' = TRUE
    /\ sp_pc' = "raised"
    /\ UNCHANGED <<yielded, status, events, gr_chunks, gr_interrupted>>
    /\ UNCHANGED <<engineVars, serviceVars, sideVars>>

\* variant: the final answer is read from the state of a suspended run too
YieldGraphEnd_WithAnswer ==
    /\ sp_pc = "end"
    /\ yielded' = Append(yielded, GraphEndEvent(status, "answer"))
    /\ sp_pc' = "done"
    /\ UNCHANGED <<status, events, gr_started, gr_chunks, gr_interrupted>>
    /\ UNCHANGED <<engineVars, serviceVars, sideVars>>

\* lines 112-122 after 90-99: graph_end follows the interrupt event
YieldGraphEnd ==
    /\ sp_pc = "end"
    /\ yielded' = Append(yielded, GraphEndEvent(status, ""))
    /\ sp_pc' = "done"
    /\ UNCHANGED <<status, events, gr_started, gr_chunks, gr_interrupted>>
    /\ UNCHANGED <<engineVars, serviceVars, sideVars>>

\* lines 100-122: the run completed; the final answer is read from the
\* state values and graph_end is yielded
StreamEndsCompleted(final_answer) ==
    /\ sp_pc = "loop"
    /\ ~gr_interrupted
    /\ gr_started' = TRUE
    /\ yielded' = Append(yielded, GraphEndEvent(status, final_answer))
    /\ sp_pc' = "done"
    /\ UNCHANGED <<status, events, gr_chunks, gr_interrupted>>
    /\ UNCHANGED <<engineVars, serviceVars, sideVars>>

StreamNext ==
    \/ YieldGraphStart
    \/ \E chunk \in Chunks : NextChunk(chunk)
    \/ YieldEvent
    \/ StreamRaises
    \/ StreamEndsInterrupted
    \/ GetStateRaises
    \/ YieldGraphEnd
    \/ \E final_answer \in Answers : StreamEndsCompleted(final_answer)

(***************************************************************************)
(* Part 2.  The checkpointed superstep engine as the graphs use it         *)
(***************************************************************************)
ExThreads == {"t1", "t2"}   \* threads of the example graph
HoThreads == {"h1"}         \* threads of the hand-off graph
Threads == ExThreads \cup HoThreads

None == "None"
Questions == {"hello"}                      \* ChatRequest.question
REJECT == "reject"                          \* the resume value "거절"
ResumeActions == {"approve", "edit", REJECT}  \* ResumeRequest.action

\* checkpoint_ns of the parent graph ("")
Root == <<>>

\* channel values: a function from the channels that hold a value
EmptyValues == [k \in {} |-> None]

Put(values, k, v) ==
    [x \in (DOMAIN values) \cup {k} |-> IF x = k THEN v ELSE values[x]]

Write(k, v) == [channel |-> k, value |-> v]

\* the keys of a state dict that are channels of the receiving graph
Project(values, channels) ==
    [k \in (DOMAIN values) \cap channels |-> values[k]]

\* Channels declared by the state schemas
SubGraphState == {"question", "analysis", "answer"}
GraphState == {"messages", "question", "documents", "answer"}
HandoffsState == {"messages", "active_agent"}
\* channels whose reducer appends (add_messages)
Appending == {"messages"}

\* messages: type, for an AI message the tool it calls (None if none), and
\* id (NoId until add_messages or the model gives it one)
NoId == -1
Message(type, tool_calls) == [type |-> type, tool_calls |-> tool_calls, id |-> NoId]

\* RemoveMessage(id=mid)
RemoveMessage(mid) == [type |-> "remove", tool_calls |-> None, id |-> mid]

Ids(messages) == {messages[i].id : i \in 1..Len(messages)}

\* add_messages raises ValueError for a RemoveMessage whose id is not in the list
CanMerge(left, right) ==
    \A i \in 1..Len(right) : right[i].type = "remove" => right[i].id \in Ids(left)

\* add_messages: a RemoveMessage deletes the message with its id, a message
\* whose id is in the list replaces that message, any other is appended
RECURSIVE add_messages(_, _)
add_messages(left, right) ==
    IF right = <<>> THEN left
    ELSE LET m == Head(right)
             merged == IF m.type = "remove"
                       THEN SelectSeq(left, LAMBDA x : x.id # m.id)
                       ELSE IF m.id \in Ids(left)
                            THEN [i \in 1..Len(left) |->
                                     IF left[i].id = m.id THEN m ELSE left[i]]
                            ELSE Append(left, m)
         IN add_messages(merged, Tail(right))

\* A node's returned dict is written channel by channel; keys that are not
\* channels of the graph are dropped, the messages channel merges through
\* add_messages, the others keep the last write
RECURSIVE apply_writes(_, _, _)
apply_writes(values, writes, channels) ==
    IF writes = <<>> THEN values
    ELSE LET w == Head(writes)
             cur == IF w.channel \in DOMAIN values THEN values[w.channel] ELSE <<>>
             nxt == IF w.channel \notin channels THEN values
                    ELSE IF w.channel \in Appending
                         THEN Put(values, w.channel, add_messages(cur, w.value))
                         ELSE Put(values, w.channel, w.value)
         IN apply_writes(nxt, Tail(writes), channels)

\* the writes of the tasks of one superstep, in task (path) order
RECURSIVE Flatten(_)
Flatten(ws) == IF ws = <<>> THEN <<>> ELSE Head(ws) \o Flatten(Tail(ws))

\* checkpointer reads
MessagesOf(values) == IF "messages" \in DOMAIN values THEN values["messages"] ELSE <<>>
IdsIn(log) == UNION {Ids(MessagesOf(log[i].values)) : i \in 1..Len(log)}
\* the largest message id given out on a thread so far (0 when none)
MaxId(t) ==
    IF IdsIn(store[t]) \subseteq {NoId} THEN 0
    ELSE CHOOSE m \in IdsIn(store[t]) : \A x \in IdsIn(store[t]) : x <= m
\* a message without an id gets a fresh one (uuid4 in add_messages, the run
\* id for a model response): ids are never given out twice on a thread
Stamp(t, messages) ==
    [i \in 1..Len(messages) |->
        IF messages[i].id = NoId THEN [messages[i] EXCEPT !.id = MaxId(t) + i]
        ELSE messages[i]]
StampWrites(t, writes) ==
    [i \in 1..Len(writes) |->
        IF writes[i].channel = "messages"
        THEN [writes[i] EXCEPT !.value = Stamp(t, writes[i].value)]
        ELSE writes[i]]
InNs(t, ns) == SelectSeq(store[t], LAMBDA c : c.ns = ns)
HasCheckpoint(t, ns) == InNs(t, ns) # <<>>
Latest(t, ns) == InNs(t, ns)[Len(InNs(t, ns))]
LatestValues(t, ns) == IF HasCheckpoint(t, ns) THEN Latest(t, ns).values ELSE EmptyValues
\* variant: the loop reuses the step of the loaded checkpoint
NextStep_NoAdvance(t, ns) == IF HasCheckpoint(t, ns) THEN Latest(t, ns).step ELSE -1

\* variant: every run numbers its steps from -1 again
NextStep_Restart(t, ns) == IF HasCheckpoint(t, ns) THEN -1 ELSE -1

\* the step the loop is at: one past the loaded checkpoint, -1 on an empty thread
NextStep(t, ns) == IF HasCheckpoint(t, ns) THEN Latest(t, ns).step + 1 ELSE -1

Checkpoint(ns, step, source, next, values) ==
    [ns |-> ns, step |-> step, source |-> source, next |-> next, values |-> values]

\* graph.aget_state(config): values and next of the latest root checkpoint,
\* with the interrupts of its pending tasks
aget_state(t) ==
    IF HasCheckpoint(t, Root)
    THEN [values |-> Latest(t, Root).values, next |-> Latest(t, Root).next,
          interrupts |-> interrupts[t]]
    ELSE [values |-> EmptyValues, next |-> {}, interrupts |-> <<>>]

\* the invocation in flight on a thread
Idle ==
    [pc |-> "idle", kind |-> None, input |-> None, resume |-> None,
     ns |-> Root, sends |-> <<>>, writes |-> <<>>, done |-> {},
     nodes |-> <<>>, hops |-> 0, before |-> <<>>, pending |-> FALSE]

NoResult ==
    [status |-> "none", kind |-> None, input |-> None, error |-> None, answer |-> None,
     interrupt_info |-> None, nodes |-> <<>>, before |-> <<>>, after |-> <<>>,
     pending |-> FALSE]

\* a checkpoint write of the invocation in flight has failed
PutFailed(t) == \E i \in lost[t] : i > Len(run[t].before)

\* what the caller of ainvoke/aresume observes, with the invocation's record:
\* the nodes it executed and the checkpoint log before and after it; the
\* error of a failed checkpoint write is raised when graph.ainvoke leaves
\* its loop, and neither orchestrator catches it
Outcome(t, st, err, answer, info, nodes, log) ==
    IF PutFailed(t) /\ st # "raised"
    THEN [status |-> "raised", kind |-> run[t].kind, input |-> run[t].input,
          error |-> "CheckpointError", answer |-> None,
          interrupt_info |-> None, nodes |-> nodes, before |-> run[t].before,
          after |-> log, pending |-> run[t].pending]
    ELSE [status |-> st, kind |-> run[t].kind, input |-> run[t].input, error |-> err,
          answer |-> answer,
          interrupt_info |-> info, nodes |-> nodes, before |-> run[t].before,
          after |-> log, pending |-> run[t].pending]

Begin(t, kind, input, resume, pc) ==
    [Idle EXCEPT !.pc = pc, !.kind = kind, !.input = input, !.resume = resume,
                 !.before = store[t], !.pending = (interrupts[t] # <<>>)]

EngineInit ==
    /\ store = [t \in Threads |-> <<>>]
    /\ interrupts = [t \in Threads |-> <<>>]
    /\ run = [t \in Threads |-> Idle]
    /\ result = [t \in Threads |-> NoResult]
    /\ ops = [t \in Threads |-> 0]

(***************************************************************************)
(* Part 3.  The example graph (GraphOrchestrator)                          *)
(***************************************************************************)
\* the perspectives "감정분석", "주제분류", "키워드추출"
ANALYSIS_PERSPECTIVES == <<"sentiment", "topic", "keyword">>

\* _fan_out_analysis: one Send to AnalyzeWorker per perspective, in list order
_fan_out_analysis(state) ==
    [i \in 1..Len(ANALYSIS_PERSPECTIVES) |->
        [node |-> "AnalyzeWorker",
         arg |-> [question |-> state["question"],
                  perspective |-> ANALYSIS_PERSPECTIVES[i]]]]

\* _analyze_worker: returns {"analyses": [result]}
_analyze_worker(arg) ==
    <<Write("analyses", <<[perspective |-> arg.perspective, question |-> arg.question]>>)>>

\* _merge_analyses: returns {"analysis": " | ".join(state['analyses'])}
_merge_analyses(state) == <<Write("analysis", state["analyses"])>>

\* variant: the edge fires as soon as one branch has finished
JoinReady_Any(done, n) == done # {}

\* the edge AnalyzeWorker -> MergeAnalyses fires when the superstep that runs
\* the Send tasks is over, that is when every task has finished
JoinReady(done, n) == done = 1..n

\* GraphOrchestrator.ainvoke up to the input checkpoint of the run
ExInvoke(t, question) ==
    /\ t \in ExThreads
    /\ run[t].pc = "idle"
    /\ ops[t] < MaxOps
    /\ ops' = [ops EXCEPT ![t] = @ + 1]
    /\ store' = [store EXCEPT ![t] =
           Append(@, Checkpoint(Root, NextStep(t, Root), "input", {"__start__"},
                                LatestValues(t, Root)))]
    /\ interrupts' = [interrupts EXCEPT ![t] = <<>>]
    /\ run' = [run EXCEPT ![t] = Begin(t, "invoke", question, None, "root_start")]
    /\ UNCHANGED <<result, streamVars, serviceVars, sideVars>>

\* variant: the input is kept on the graph object the threads share, so a
\* thread may pick up the question of another invocation in flight
ExRootStart_SharedInput(t) ==
    /\ t \in ExThreads
    /\ run[t].pc = "root_start"
    /\ store' = [store EXCEPT ![t] =
           Append(@, Checkpoint(Root, NextStep(t, Root), "loop", {"ProcessSubGraph"},
                     apply_writes(LatestValues(t, Root),
                                  <<Write("question",
                                          run[CHOOSE u \in ExThreads : run[u].pc # "idle"].input)>>,
                                  GraphState)))]
    /\ run' = [run EXCEPT ![t].pc = "sub_first"]
    /\ UNCHANGED <<interrupts, result, ops, streamVars, serviceVars, sideVars>>

\* superstep of START in the parent graph: the input is written to the state
\* channels and ProcessSubGraph is scheduled
ExRootStart(t) ==
    /\ t \in ExThreads
    /\ run[t].pc = "root_start"
    /\ store' = [store EXCEPT ![t] =
           Append(@, Checkpoint(Root, NextStep(t, Root), "loop", {"ProcessSubGraph"},
                     apply_writes(LatestValues(t, Root),
                                  <<Write("question", run[t].input)>>, GraphState)))]
    /\ run' = [run EXCEPT ![t].pc = "sub_first"]
    /\ UNCHANGED <<interrupts, result, ops, streamVars, serviceVars, sideVars>>

\* namespace of the subgraph run by the task ProcessSubGraph of the root step
SubNs(t) == <<"ProcessSubGraph", NextStep(t, Root)>>

\* ProcessSubGraph starts the subgraph: a fresh run writes its input
\* checkpoint, a resumed run continues from the subgraph's last checkpoint
ExSubFirst(t) ==
    /\ t \in ExThreads
    /\ run[t].pc = "sub_first"
    /\ IF HasCheckpoint(t, SubNs(t))
       THEN /\ run' = [run EXCEPT ![t].ns = SubNs(t),
                                  ![t].pc = IF "MergeAnalyses" \in Latest(t, SubNs(t)).next
                                            THEN "merge" ELSE "review"]
            /\ UNCHANGED store
       ELSE /\ store' = [store EXCEPT ![t] =
                   Append(@, Checkpoint(SubNs(t), -1, "input", {"__start__"}, EmptyValues))]
            /\ run' = [run EXCEPT ![t].ns = SubNs(t), ![t].pc = "sub_start"]
    /\ UNCHANGED <<interrupts, result, ops, streamVars, serviceVars, sideVars>>

\* superstep of START in the subgraph: the parent's state is written to the
\* subgraph's channels and the fan-out router is evaluated once
ExSubStart(t) ==
    /\ t \in ExThreads
    /\ run[t].pc = "sub_start"
    /\ LET values == Project(LatestValues(t, Root), SubGraphState)
       IN /\ store' = [store EXCEPT ![t] =
                 Append(@, Checkpoint(run[t].ns, 0, "loop", {"AnalyzeWorker"}, values))]
          /\ run' = [run EXCEPT ![t].pc = "workers",
                                ![t].sends = _fan_out_analysis(values),
                                ![t].writes = [i \in 1..Len(_fan_out_analysis(values)) |-> <<>>],
                                ![t].done = {}]
    /\ UNCHANGED <<interrupts, result, ops, streamVars, serviceVars, sideVars>>

\* one AnalyzeWorker branch finishes; the branches finish in any order
ExAnalyzeWorker(t, i) ==
    /\ t \in ExThreads
    /\ run[t].pc = "workers"
    /\ i \in (1..Len(run[t].sends)) \ run[t].done
    /\ run' = [run EXCEPT ![t].writes[i] = _analyze_worker(run[t].sends[i].arg),
                          ![t].done = @ \cup {i},
                          ![t].nodes = Append(@, "AnalyzeWorker")]
    /\ UNCHANGED <<store, interrupts, result, ops, streamVars, serviceVars, sideVars>>

\* the superstep of the branches ends: their writes are applied in branch
\* order and MergeAnalyses is scheduled
ExJoin(t) ==
    /\ t \in ExThreads
    /\ run[t].pc = "workers"
    /\ JoinReady(run[t].done, Len(run[t].sends))
    /\ store' = [store EXCEPT ![t] =
           Append(@, Checkpoint(run[t].ns, NextStep(t, run[t].ns), "loop", {"MergeAnalyses"},
                     apply_writes(LatestValues(t, run[t].ns), Flatten(run[t].writes),
                                  SubGraphState)))]
    /\ run' = [run EXCEPT ![t].pc = "merge"]
    /\ UNCHANGED <<interrupts, result, ops, streamVars, serviceVars, sideVars>>

\* variant: a failed MergeAnalyses is run a second time before the error
\* leaves the invocation
ExMergeAnalyses_Retries(t) ==
    /\ t \in ExThreads
    /\ run[t].pc = "merge"
    /\ LET nodes == Append(run[t].nodes, "MergeAnalyses")
       IN IF \E i \in 1..Len(run[t].nodes) : run[t].nodes[i] = "MergeAnalyses"
          THEN /\ result' = [result EXCEPT ![t] =
                      Outcome(t, "raised", "KeyError", None, None, nodes, store[t])]
               /\ run' = [run EXCEPT ![t] = Idle]
          ELSE /\ run' = [run EXCEPT ![t].nodes = nodes]
               /\ UNCHANGED result
    /\ UNCHANGED <<store, interrupts, ops, streamVars, serviceVars, sideVars>>

\* MergeAnalyses runs on the subgraph state; state['analyses'] raises KeyError
\* when the state has no such key, and the error leaves ainvoke/aresume
ExMergeAnalyses(t) ==
    /\ t \in ExThreads
    /\ run[t].pc = "merge"
    /\ LET state == LatestValues(t, run[t].ns)
           nodes == Append(run[t].nodes, "MergeAnalyses")
       IN IF "analyses" \in DOMAIN state
          THEN /\ store' = [store EXCEPT ![t] =
                      Append(@, Checkpoint(run[t].ns, NextStep(t, run[t].ns), "loop",
                                {"HumanReview"},
                                apply_writes(state, _merge_analyses(state), SubGraphState)))]
               /\ run' = [run EXCEPT ![t].pc = "review", ![t].nodes = nodes]
               /\ UNCHANGED result
          ELSE /\ result' = [result EXCEPT ![t] =
                      Outcome(t, "raised", "KeyError", None, None, nodes, store[t])]
               /\ run' = [run EXCEPT ![t] = Idle]
               /\ UNCHANGED store
    /\ UNCHANGED <<interrupts, ops, streamVars, serviceVars, sideVars>>

\* variant: a resume on a thread without checkpoints returns a completed
\* result with an empty answer
ExResume_FreshCompletes(t, action) ==
    /\ t \in ExThreads
    /\ run[t].pc = "idle"
    /\ ops[t] < MaxOps
    /\ ~HasCheckpoint(t, Root)
    /\ ops' = [ops EXCEPT ![t] = @ + 1]
    /\ result' = [result EXCEPT ![t] =
           [Outcome(t, "completed", None, "", None, <<>>, store[t])
               EXCEPT !.kind = "resume", !.input = action, !.before = store[t],
                      !.pending = (interrupts[t] # <<>>)]]
    /\ UNCHANGED <<store, interrupts, run, streamVars, serviceVars, sideVars>>

\* GraphOrchestrator.aresume: graph.ainvoke(Command(resume=action)) with no
\* check of the thread's state beforehand
ExResume(t, action) ==
    /\ t \in ExThreads
    /\ run[t].pc = "idle"
    /\ ops[t] < MaxOps
    /\ ops' = [ops EXCEPT ![t] = @ + 1]
    /\ LET state == aget_state(t)
           r == Begin(t, "resume", action, action, "sub_first")
       IN IF ~HasCheckpoint(t, Root)
          THEN \* a Command is no input for a thread without a checkpoint
               /\ result' = [result EXCEPT ![t] =
                      [Outcome(t, "raised", "EmptyInputError", None, None, <<>>, store[t])
                          EXCEPT !.kind = "resume", !.input = action, !.before = store[t],
                                 !.pending = (interrupts[t] # <<>>)]]
               /\ UNCHANGED run
          ELSE IF state.next = {}
          THEN \* nothing is left to run: the stored values are returned
               /\ result' = [result EXCEPT ![t] =
                      [Outcome(t, IF "answer" \in DOMAIN state.values
                                  THEN "completed" ELSE "raised",
                               IF "answer" \in DOMAIN state.values THEN None ELSE "KeyError",
                               IF "answer" \in DOMAIN state.values
                                  THEN state.values["answer"] ELSE None,
                               None, <<>>, store[t])
                          EXCEPT !.kind = "resume", !.input = action, !.before = store[t],
                                 !.pending = (interrupts[t] # <<>>)]]
               /\ UNCHANGED run
          ELSE \* the pending task ProcessSubGraph is run again
               /\ run' = [run EXCEPT ![t] = r]
               /\ UNCHANGED result
    /\ UNCHANGED <<store, interrupts, streamVars, serviceVars, sideVars>>

\* one client of the example graph: the calls on its thread
SoloThreads == {"t1"}

ExampleNext ==
    \/ \E t \in SoloThreads, question \in Questions : ExInvoke(t, question)
    \/ \E t \in SoloThreads : ExRootStart(t)
    \/ \E t \in SoloThreads : ExSubFirst(t)
    \/ \E t \in SoloThreads : ExSubStart(t)
    \/ \E t \in SoloThreads, i \in 1..Len(ANALYSIS_PERSPECTIVES) : ExAnalyzeWorker(t, i)
    \/ \E t \in SoloThreads : ExJoin(t)
    \/ \E t \in SoloThreads : ExMergeAnalyses(t)
    \/ \E t \in SoloThreads, action \in ResumeActions : ExResume(t, action)

\* two clients of the example graph, each on its own thread, with calls in
\* flight at the same time
PairQuestions == {"hello", "bye"}

PairNext ==
    \/ \E t \in ExThreads, question \in PairQuestions : ExInvoke(t, question)
    \/ \E t \in ExThreads : ExRootStart(t)
    \/ \E t \in ExThreads : ExSubFirst(t)
    \/ \E t \in ExThreads : ExSubStart(t)
    \/ \E t \in ExThreads, i \in 1..Len(ANALYSIS_PERSPECTIVES) : ExAnalyzeWorker(t, i)
    \/ \E t \in ExThreads : ExJoin(t)
    \/ \E t \in ExThreads : ExMergeAnalyses(t)
    \/ \E t \in ExThreads, action \in ResumeActions : ExResume(t, action)

(***************************************************************************)
(* Part 4.  The hand-off graph (HandoffsGraphOrchestrator)                 *)
(***************************************************************************)
Agents == {"sales_agent", "support_agent"}
END == "__end__"

\* tools given to each agent by create_agent
Tools(agent) ==
    IF agent = "sales_agent"
    THEN {"transfer_to_support", "transfer_to_support_with_confirm"}
    ELSE {"transfer_to_sales"}

\* what one model call of an agent gives: a final answer, a call of one of
\* the agent's tools, or a failure of the call
LLMOutputs(agent) == {"answer", "fail"} \cup Tools(agent)

\* the payload of interrupt() in transfer_to_support_with_confirm
CONFIRM_PROMPT == "confirm_transfer_to_support"

\* the target of the plain transfer tools
TransferTarget(tool) ==
    IF tool = "transfer_to_sales" THEN "sales_agent" ELSE "support_agent"

\* variant: the transfer goes to the target without recording it as the
\* active agent
transfer_StaleActiveAgent(tool, last_ai) ==
    [goto |-> TransferTarget(tool),
     update |-> <<Write("messages", <<last_ai, Message("tool", None)>>)>>]

\* transfer_to_sales / transfer_to_support:
\* Command(goto=target, update={active_agent, messages: [last_ai, transfer_msg]})
transfer(tool, last_ai) ==
    [goto |-> TransferTarget(tool),
     update |-> <<Write("active_agent", TransferTarget(tool)),
                  Write("messages", <<last_ai, Message("tool", None)>>)>>]

\* variant: the gated transfer goes ahead whatever the resume value is
transfer_to_support_with_confirm_AlwaysTransfers(user_decision, last_ai) ==
    [goto |-> "support_agent",
     update |-> <<Write("active_agent", "support_agent"),
                  Write("messages", <<last_ai, Message("tool", None)>>)>>]

\* transfer_to_support_with_confirm after interrupt() returned user_decision
transfer_to_support_with_confirm(user_decision, last_ai) ==
    IF user_decision = REJECT
    THEN [goto |-> None,
          update |-> <<Write("messages", <<last_ai, Message("tool", None)>>)>>]
    ELSE [goto |-> "support_agent",
          update |-> <<Write("active_agent", "support_agent"),
                       Write("messages", <<last_ai, Message("tool", None)>>)>>]

\* _route_initial: state.get("active_agent") or "sales_agent"
_route_initial(state) ==
    IF "active_agent" \in DOMAIN state /\ state["active_agent"] # ""
    THEN state["active_agent"] ELSE "sales_agent"

\* variant: without a final answer the edge stays on the sales agent
_route_after_agent_IgnoresActive(state) ==
    LET messages == IF "messages" \in DOMAIN state THEN state["messages"] ELSE <<>>
        last_msg == messages[Len(messages)]
    IN IF messages # <<>> /\ last_msg.type = "ai" /\ last_msg.tool_calls = None
       THEN END
       ELSE "sales_agent"

\* _route_after_agent: END after an AI message without tool calls, otherwise
\* the active agent
_route_after_agent(state) ==
    LET messages == IF "messages" \in DOMAIN state THEN state["messages"] ELSE <<>>
        last_msg == messages[Len(messages)]
    IN IF messages # <<>> /\ last_msg.type = "ai" /\ last_msg.tool_calls = None
       THEN END
       ELSE IF "active_agent" \in DOMAIN state THEN state["active_agent"] ELSE "sales_agent"

\* HandoffsGraphOrchestrator._extract_interrupt_info
HoInterruptInfo(state) ==
    [next_nodes |-> state.next, interrupts |-> state.interrupts]

\* variant: the completed response has no answer
_build_completed_response_NoAnswer(values) == None

\* _build_completed_response: the last AI message with content and no tool call
_build_completed_response(values) ==
    IF \E i \in 1..Len(values["messages"]) :
          values["messages"][i].type = "ai" /\ values["messages"][i].tool_calls = None
    THEN "answer" ELSE ""

\* variant: the suspension reaches the caller as an exception
HoInterrupted_Raises(t, state, nodes) ==
    Outcome(t, "raised", "GraphInterrupt", None, None, nodes, store[t])

\* ainvoke/aresume after graph.ainvoke returned with state.next non-empty:
\* {"status": "interrupted", "interrupt_info": _extract_interrupt_info(config)}
HoInterrupted(t, state, nodes) ==
    Outcome(t, "interrupted", None, None, HoInterruptInfo(state), nodes, store[t])

\* the agent whose task is pending in the latest root checkpoint
PendingAgent(t) == CHOOSE a \in Latest(t, Root).next : TRUE

AgentNs(t) == <<PendingAgent(t), NextStep(t, Root)>>

\* HandoffsGraphOrchestrator.ainvoke up to the input checkpoint of the run
HoInvoke(t, question) ==
    /\ t \in HoThreads
    /\ run[t].pc = "idle"
    /\ ops[t] < MaxOps
    /\ ops' = [ops EXCEPT ![t] = @ + 1]
    /\ store' = [store EXCEPT ![t] =
           Append(@, Checkpoint(Root, NextStep(t, Root), "input", {"__start__"},
                                LatestValues(t, Root)))]
    /\ interrupts' = [interrupts EXCEPT ![t] = <<>>]
    /\ run' = [run EXCEPT ![t] = Begin(t, "invoke", question, None, "root_start")]
    /\ UNCHANGED <<result, streamVars, serviceVars, sideVars>>

\* superstep of START: the input (the user message and active_agent =
\* "sales_agent") is written and _route_initial picks the entry agent
HoRootStart(t) ==
    /\ t \in HoThreads
    /\ run[t].pc = "root_start"
    /\ LET values == apply_writes(LatestValues(t, Root),
                        <<Write("messages", Stamp(t, <<Message("human", None)>>)),
                          Write("active_agent", "sales_agent")>>, HandoffsState)
       IN store' = [store EXCEPT ![t] =
              Append(@, Checkpoint(Root, NextStep(t, Root), "loop",
                                   {_route_initial(values)}, values))]
    /\ run' = [run EXCEPT ![t].pc = "agent_first"]
    /\ UNCHANGED <<interrupts, result, ops, streamVars, serviceVars, sideVars>>

\* call_sales_agent / call_support_agent: the agent subgraph is invoked with
\* the parent state; a resumed run continues from the subgraph's checkpoint
HoAgentFirst(t) ==
    /\ t \in HoThreads
    /\ run[t].pc = "agent_first"
    /\ IF HasCheckpoint(t, AgentNs(t))
       THEN /\ run' = [run EXCEPT ![t].ns = AgentNs(t),
                                  ![t].pc = IF "tools" \in Latest(t, AgentNs(t)).next
                                            THEN "tools" ELSE "model"]
            /\ UNCHANGED store
       ELSE /\ store' = [store EXCEPT ![t] =
                   @ \o <<Checkpoint(AgentNs(t), -1, "input", {"__start__"}, EmptyValues),
                          Checkpoint(AgentNs(t), 0, "loop", {"model"},
                                     Project(LatestValues(t, Root), {"messages"}))>>]
            /\ run' = [run EXCEPT ![t].ns = AgentNs(t), ![t].pc = "model",
                                  ![t].hops = @ + 1]
    /\ UNCHANGED <<interrupts, result, ops, streamVars, serviceVars, sideVars>>

\* the model node of the agent: the model answers, calls a tool, or fails
HoModelCall(t, out) ==
    /\ t \in HoThreads
    /\ run[t].pc = "model"
    /\ out \in LLMOutputs(run[t].ns[1])
    /\ LET state == LatestValues(t, run[t].ns)
           nodes == Append(run[t].nodes, run[t].ns[1])
           ai == Stamp(t, <<Message("ai", IF out = "answer" THEN None ELSE out)>>)[1]
       IN IF out = "fail"
          THEN /\ result' = [result EXCEPT ![t] =
                      Outcome(t, "raised", "ModelError", None, None, nodes, store[t])]
               /\ run' = [run EXCEPT ![t] = Idle]
               /\ UNCHANGED store
          ELSE /\ store' = [store EXCEPT ![t] =
                      Append(@, Checkpoint(run[t].ns, NextStep(t, run[t].ns), "loop",
                                IF out = "answer" THEN {} ELSE {"tools"},
                                apply_writes(state, <<Write("messages", <<ai>>)>>,
                                             {"messages"})))]
               /\ run' = [run EXCEPT ![t].nodes = nodes,
                                     ![t].pc = IF out = "answer" THEN "agent_done" ELSE "tools",
                                     ![t].writes = <<Write("messages", <<ai>>)>>,
                                     ![t].sends = <<>>]
               /\ UNCHANGED result
    /\ UNCHANGED <<interrupts, ops, streamVars, serviceVars, sideVars>>

\* the model node, within the number of agent runs explored per invocation
HoModel(t, out) ==
    /\ run[t].pc = "model"
    /\ out \in Tools(run[t].ns[1]) => run[t].hops < MaxHops
    /\ HoModelCall(t, out)

\* variant: interrupt() returns without suspending, the transfer goes ahead
HoTools_NoWait(t) ==
    /\ t \in HoThreads
    /\ run[t].pc = "tools"
    /\ LET messages == LatestValues(t, run[t].ns)["messages"]
           last_ai == messages[Len(messages)]
           tool == last_ai.tool_calls
           cmd == IF tool = "transfer_to_support_with_confirm"
                  THEN transfer_to_support_with_confirm(run[t].resume, last_ai)
                  ELSE transfer(tool, last_ai)
       IN /\ run' = [run EXCEPT ![t].pc = "agent_done",
                                ![t].writes = cmd.update,
                                ![t].sends = IF cmd.goto = None THEN <<>> ELSE <<cmd.goto>>,
                                ![t].resume = IF tool = "transfer_to_support_with_confirm"
                                              THEN None ELSE @]
          /\ UNCHANGED <<interrupts, result>>
    /\ UNCHANGED <<store, ops, streamVars, serviceVars, sideVars>>

\* variant: the resume value does not reach interrupt(), which suspends again
HoTools_Reinterrupts(t) ==
    /\ t \in HoThreads
    /\ run[t].pc = "tools"
    /\ LET messages == LatestValues(t, run[t].ns)["messages"]
           last_ai == messages[Len(messages)]
           tool == last_ai.tool_calls
           cmd == transfer(tool, last_ai)
       IN IF tool = "transfer_to_support_with_confirm"
          THEN /\ interrupts' = [interrupts EXCEPT ![t] =
                      <<[value |-> CONFIRM_PROMPT, task_name |-> run[t].ns[1]]>>]
               /\ result' = [result EXCEPT ![t] =
                      HoInterrupted(t, [aget_state(t) EXCEPT !.interrupts =
                                  <<[value |-> CONFIRM_PROMPT, task_name |-> run[t].ns[1]]>>],
                              run[t].nodes)]
               /\ run' = [run EXCEPT ![t] = Idle]
          ELSE /\ run' = [run EXCEPT ![t].pc = "agent_done",
                                     ![t].writes = cmd.update,
                                     ![t].sends = <<cmd.goto>>]
               /\ UNCHANGED <<interrupts, result>>
    /\ UNCHANGED <<store, ops, streamVars, serviceVars, sideVars>>

\* the tools node of the agent runs the transfer tool of the last AI message;
\* interrupt() suspends the run unless a resume value is there to return
HoTools(t) ==
    /\ t \in HoThreads
    /\ run[t].pc = "tools"
    /\ LET messages == LatestValues(t, run[t].ns)["messages"]
           last_ai == messages[Len(messages)]
           tool == last_ai.tool_calls
           cmd == IF tool = "transfer_to_support_with_confirm"
                  THEN transfer_to_support_with_confirm(run[t].resume, last_ai)
                  ELSE transfer(tool, last_ai)
       IN IF tool = "transfer_to_support_with_confirm" /\ run[t].resume = None
          THEN \* GraphInterrupt: ainvoke returns and the caller reads the state
               /\ interrupts' = [interrupts EXCEPT ![t] =
                      <<[value |-> CONFIRM_PROMPT, task_name |-> run[t].ns[1]]>>]
               /\ result' = [result EXCEPT ![t] =
                      HoInterrupted(t, [aget_state(t) EXCEPT !.interrupts =
                                  <<[value |-> CONFIRM_PROMPT, task_name |-> run[t].ns[1]]>>],
                              run[t].nodes)]
               /\ run' = [run EXCEPT ![t] = Idle]
          ELSE /\ run' = [run EXCEPT ![t].pc = "agent_done",
                                     ![t].writes = cmd.update,
                                     ![t].sends = IF cmd.goto = None THEN <<>> ELSE <<cmd.goto>>,
                                     ![t].resume = IF tool = "transfer_to_support_with_confirm"
                                                   THEN None ELSE @]
               /\ UNCHANGED <<interrupts, result>>
    /\ UNCHANGED <<store, ops, streamVars, serviceVars, sideVars>>

\* the superstep of the agent node ends in the parent graph: its update is
\* applied, Command.goto and _route_after_agent schedule the next node and
\* the checkpoint is written; with nothing scheduled ainvoke returns
HoAgentDone(t) ==
    /\ t \in HoThreads
    /\ run[t].pc = "agent_done"
    /\ LET values == apply_writes(LatestValues(t, Root), StampWrites(t, run[t].writes),
                                  HandoffsState)
           next == ({run[t].sends[i] : i \in 1..Len(run[t].sends)}
                      \cup {_route_after_agent(values)}) \ {END}
           log == Append(store[t], Checkpoint(Root, NextStep(t, Root), "loop", next, values))
       IN /\ store' = [store EXCEPT ![t] = log]
          /\ interrupts' = [interrupts EXCEPT ![t] = <<>>]
          /\ IF next = {}
             THEN /\ result' = [result EXCEPT ![t] =
                         Outcome(t, "completed", None, _build_completed_response(values),
                                 None, run[t].nodes, log)]
                  /\ run' = [run EXCEPT ![t] = Idle]
             ELSE /\ run' = [run EXCEPT ![t].pc = "agent_first", ![t].writes = <<>>,
                                        ![t].sends = <<>>]
                  /\ UNCHANGED result
    /\ UNCHANGED <<ops, streamVars, serviceVars, sideVars>>

\* variant: a thread that was resumed once is not resumed again
HoResumeCall_OnlyOnce(t, action) ==
    /\ t \in HoThreads
    /\ run[t].pc = "idle"
    /\ IF aget_state(t).next = {} \/ result[t].kind = "resume"
       THEN /\ result' = [result EXCEPT ![t] =
                   [Outcome(t, "error", "NoPendingInterrupt", None, None, <<>>, store[t])
                       EXCEPT !.kind = "resume", !.input = action, !.before = store[t],
                              !.pending = (interrupts[t] # <<>>)]]
            /\ UNCHANGED run
       ELSE /\ run' = [run EXCEPT ![t] = Begin(t, "resume", action, action, "agent_first")]
            /\ UNCHANGED result
    /\ UNCHANGED <<store, interrupts, streamVars, serviceVars, sideVars>>

\* variant: aresume refuses every call
HoResumeCall_AlwaysRefuses(t, action) ==
    /\ t \in HoThreads
    /\ run[t].pc = "idle"
    /\ result' = [result EXCEPT ![t] =
           [Outcome(t, "error", "NoPendingInterrupt", None, None, <<>>, store[t])
               EXCEPT !.kind = "resume", !.input = action, !.before = store[t],
                      !.pending = (interrupts[t] # <<>>)]]
    /\ UNCHANGED <<run, store, interrupts, streamVars, serviceVars, sideVars>>

\* HandoffsGraphOrchestrator.aresume: refuses when state.next is empty,
\* otherwise graph.ainvoke(Command(resume=action))
HoResumeCall(t, action) ==
    /\ t \in HoThreads
    /\ run[t].pc = "idle"
    /\ IF aget_state(t).next = {}
       THEN /\ result' = [result EXCEPT ![t] =
                   [Outcome(t, "error", "NoPendingInterrupt", None, None, <<>>, store[t])
                       EXCEPT !.kind = "resume", !.input = action, !.before = store[t],
                              !.pending = (interrupts[t] # <<>>)]]
            /\ UNCHANGED run
       ELSE /\ run' = [run EXCEPT ![t] = Begin(t, "resume", action, action, "agent_first")]
            /\ UNCHANGED result
    /\ UNCHANGED <<store, interrupts, streamVars, serviceVars, sideVars>>

\* a call of aresume, within the number of calls explored per thread
HoResume(t, action) ==
    /\ ops[t] < MaxOps
    /\ ops' = [ops EXCEPT ![t] = @ + 1]
    /\ HoResumeCall(t, action)

\* one more call of aresume, after a resume that was suspended again
HoResumeAgain(t, action) ==
    /\ ops[t] = MaxOps
    /\ result[t].kind = "resume" /\ result[t].status = "interrupted"
    /\ ops' = [ops EXCEPT ![t] = @ + 1]
    /\ HoResumeCall(t, action)

\* graph.ainvoke is called without recursion_limit, so the engine's default
\* (25 supersteps) applies; the model runs the loop with MaxSteps of them
recursion_limit == MaxSteps

\* the superstep loop has used up its steps with a node still scheduled:
\* GraphRecursionError leaves graph.ainvoke, and ainvoke/aresume do not
\* catch it
HoOutOfSteps(t) ==
    /\ t \in HoThreads
    /\ run[t].pc = "agent_first"
    /\ ~HasCheckpoint(t, AgentNs(t))
    /\ run[t].hops >= recursion_limit
    /\ result' = [result EXCEPT ![t] =
           Outcome(t, "raised", "GraphRecursionError", None, None, run[t].nodes, store[t])]
    /\ run' = [run EXCEPT ![t] = Idle]
    /\ UNCHANGED <<store, interrupts, ops, streamVars, serviceVars, sideVars>>

\* an agent node is started while the loop has steps left
HoAgentWithinSteps(t) ==
    /\ run[t].pc = "agent_first"
    /\ HasCheckpoint(t, AgentNs(t)) \/ run[t].hops < recursion_limit
    /\ HoAgentFirst(t)

\* the steps of the invocation in flight on a thread
HoRunStep(t) ==
    \/ HoRootStart(t)
    \/ HoAgentWithinSteps(t)
    \/ HoOutOfSteps(t)
    \/ \E out \in LLMOutputs("sales_agent") \cup LLMOutputs("support_agent") :
          HoModelCall(t, out)
    \/ HoTools(t)
    \/ HoAgentDone(t)

\* the hand-off graph with the model free to call a transfer tool in every
\* agent run
LoopNext ==
    \/ \E t \in HoThreads, question \in Questions : HoInvoke(t, question)
    \/ \E t \in HoThreads : HoRunStep(t)
    \/ \E t \in HoThreads, action \in ResumeActions : HoResume(t, action)

HandoffsNext ==
    \/ \E t \in HoThreads, question \in Questions : HoInvoke(t, question)
    \/ \E t \in HoThreads : HoRootStart(t)
    \/ \E t \in HoThreads : HoAgentFirst(t)
    \/ \E t \in HoThreads, out \in LLMOutputs("sales_agent") \cup LLMOutputs("support_agent") :
          HoModel(t, out)
    \/ \E t \in HoThreads : HoTools(t)
    \/ \E t \in HoThreads : HoAgentDone(t)
    \/ \E t \in HoThreads, action \in ResumeActions : HoResume(t, action)

(***************************************************************************)
(* Part 5.  ChatService on the shared checkpointer: listing the            *)
(* checkpoints of a thread, deleting messages, purging a thread            *)
(***************************************************************************)
\* DeleteMessagesRequest.message_ids: omitted (given = FALSE) or a list of ids
IdLists == {<<>>, <<1>>, <<1, 2>>, <<2, 99>>, <<1, 1>>}
DeleteRequests ==
    {[given |-> FALSE, message_ids |-> <<>>]}
        \cup {[given |-> TRUE, message_ids |-> l] : l \in IdLists}

\* checkpointer.alist(config): the checkpoints of the thread, newest first,
\* each with its checkpoint_id (here its position in the order written)
alist(log) ==
    [i \in 1..Len(log) |-> [checkpoint_id |-> Len(log) + 1 - i, cp |-> log[Len(log) + 1 - i]]]

CheckpointInfo(entry) ==
    [checkpoint_id |-> entry.checkpoint_id,
     step |-> entry.cp.step,
     messages_count |-> Len(MessagesOf(entry.cp.values)),
     messages |-> [k \in 1..Len(MessagesOf(entry.cp.values)) |->
                      MessagesOf(entry.cp.values)[k].id]]

\* the loop of get_checkpoint_list: subgraph checkpoints and checkpoints whose
\* source is not "loop" are skipped, then a checkpoint whose message count
\* equals prev_messages_count is skipped; prev_messages_count starts as None
RECURSIVE list_from(_, _, _)
list_from(cps, prev_messages_count, first) ==
    IF cps = <<>> THEN <<>>
    ELSE LET cp == Head(cps).cp
             messages_count == Len(MessagesOf(cp.values))
         IN IF cp.ns # Root THEN list_from(Tail(cps), prev_messages_count, first)
            ELSE IF cp.source # "loop" THEN list_from(Tail(cps), prev_messages_count, first)
            ELSE IF ~first /\ messages_count = prev_messages_count
                 THEN list_from(Tail(cps), prev_messages_count, first)
            ELSE <<CheckpointInfo(Head(cps))>> \o list_from(Tail(cps), messages_count, FALSE)

\* variant: every root loop checkpoint is listed
get_checkpoint_list_NoDedupe(log) ==
    LET kept == SelectSeq(alist(log), LAMBDA e : e.cp.ns = Root /\ e.cp.source = "loop")
    IN [i \in 1..Len(kept) |-> CheckpointInfo(kept[i])]

\* variant: the source of a checkpoint is not looked at
RECURSIVE list_from_AnySource(_, _, _)
list_from_AnySource(cps, prev_messages_count, first) ==
    IF cps = <<>> THEN <<>>
    ELSE LET cp == Head(cps).cp
             messages_count == Len(MessagesOf(cp.values))
         IN IF cp.ns # Root THEN list_from_AnySource(Tail(cps), prev_messages_count, first)
            ELSE IF ~first /\ messages_count = prev_messages_count
                 THEN list_from_AnySource(Tail(cps), prev_messages_count, first)
            ELSE <<CheckpointInfo(Head(cps))>>
                     \o list_from_AnySource(Tail(cps), messages_count, FALSE)

get_checkpoint_list_AnySource(log) == list_from_AnySource(alist(log), 0, TRUE)

\* ChatService.get_checkpoint_list: CheckpointListResponse.checkpoints
get_checkpoint_list(log) == list_from(alist(log), 0, TRUE)

\* variant: only the newest checkpoint of the thread is deleted
adelete_thread_LatestOnly(log) == SubSeq(log, 1, Len(log) - 1)

\* checkpointer.adelete_thread(session_id): every checkpoint of the thread,
\* of every namespace, is deleted
adelete_thread(log) == SubSeq(log, 1, 0)

\* variant: remaining is not reduced by the deleted messages
adelete_messages_StaleRemaining(message_ids, messages) ==
    LET valid_ids == SelectSeq(message_ids, LAMBDA mid : mid \in Ids(messages))
    IN [removes |-> [i \in 1..Len(valid_ids) |-> RemoveMessage(valid_ids[i])],
        keys |-> {"deleted", "remaining"},
        deleted |-> Len(valid_ids), remaining |-> Len(messages)]

\* GraphOrchestrator.adelete_messages, from the messages read with aget_state:
\* the RemoveMessage list for aupdate_state (empty: nothing is written) and
\* the dict it returns (keys: the keys of that dict)
adelete_messages(message_ids, messages) ==
    LET valid_ids == SelectSeq(message_ids, LAMBDA mid : mid \in Ids(messages))
    IN IF messages = <<>>
       THEN [removes |-> <<>>, keys |-> {"deleted", "remaining"},
             deleted |-> 0, remaining |-> 0]
       ELSE IF valid_ids = <<>>
       THEN [removes |-> <<>>, keys |-> {"deleted", "remaining"},
             deleted |-> 0, remaining |-> Len(messages)]
       ELSE [removes |-> [i \in 1..Len(valid_ids) |-> RemoveMessage(valid_ids[i])],
             keys |-> {"deleted", "remaining"},
             deleted |-> Len(valid_ids), remaining |-> Len(messages) - Len(valid_ids)]

\* GraphOrchestrator.aclear_history: the returned dict has no "remaining" key
aclear_history(messages) ==
    [removes |-> [i \in 1..Len(messages) |-> RemoveMessage(messages[i].id)],
     keys |-> {"deleted"}, deleted |-> Len(messages), remaining |-> 0]

\* variant: only an omitted list clears the history (`is not None`)
delete_messages_OmittedOnly(request, messages) ==
    IF request.given
    THEN adelete_messages(request.message_ids, messages)
    ELSE aclear_history(messages)

\* ChatService.delete_messages: `if request.message_ids:` is false for an
\* omitted list and for an empty one
delete_messages(request, messages) ==
    IF request.given /\ request.message_ids # <<>>
    THEN adelete_messages(request.message_ids, messages)
    ELSE aclear_history(messages)

\* Mutation.delete_messages: DeleteResultType(deleted, result.get("remaining", 0))
DeleteResultType(d) ==
    [deleted |-> d.deleted,
     remaining |-> IF "remaining" \in d.keys THEN d.remaining ELSE 0]

\* graph.aupdate_state(config, {"messages": removes}): the writes go through
\* the channels' reducers onto the latest checkpoint of the thread and a
\* checkpoint with source "update" is saved at the next step
aupdate_state(t, removes) ==
    Append(store[t],
           Checkpoint(Root, NextStep(t, Root), "update", Latest(t, Root).next,
                      apply_writes(LatestValues(t, Root),
                                   <<Write("messages", removes)>>, GraphState)))

NoReply ==
    [op |-> None, request |-> [given |-> FALSE, message_ids |-> <<>>],
     keys |-> {}, deleted |-> 0, remaining |-> 0, checkpoints |-> <<>>,
     error |-> None, before |-> <<>>, after |-> <<>>,
     prev_op |-> None, prev_before |-> <<>>, prev_after |-> <<>>]

NoDelete ==
    [pc |-> "idle", request |-> [given |-> FALSE, message_ids |-> <<>>],
     removes |-> <<>>, keys |-> {}, deleted |-> 0, remaining |-> 0, log |-> <<>>]

\* what delete_messages gives its caller, with the checkpoint log of the
\* thread when the call read it (before) and when it returned (after)
DeleteReply(t, request, plan, error, before, after) ==
    [NoReply EXCEPT !.op = "delete", !.request = request, !.keys = plan.keys,
                    !.deleted = plan.deleted, !.remaining = plan.remaining,
                    !.error = error, !.before = before, !.after = after,
                    !.prev_op = reply[t].op]

ServiceInit ==
    /\ reply = [t \in Threads |-> NoReply]
    /\ del = [t \in Threads |-> NoDelete]

\* GET /v1/checkpoint-info, Query.checkpoints
ListCheckpoints(t) ==
    /\ run[t].pc = "idle"
    /\ reply' = [reply EXCEPT ![t] =
           [NoReply EXCEPT !.op = "list",
                           !.checkpoints = get_checkpoint_list(store[t]),
                           !.before = store[t], !.after = store[t],
                           !.prev_op = reply[t].op,
                           !.prev_before = reply[t].before,
                           !.prev_after = reply[t].after]]
    /\ UNCHANGED <<engineVars, del, streamVars, sideVars>>

\* ChatService.purge_checkpoints
PurgeCheckpoints(t) ==
    /\ run[t].pc = "idle"
    /\ store' = [store EXCEPT ![t] = adelete_thread(@)]
    /\ interrupts' = [interrupts EXCEPT ![t] = <<>>]
    /\ reply' = [reply EXCEPT ![t] =
           [NoReply EXCEPT !.op = "purge", !.before = store[t],
                           !.after = adelete_thread(store[t]),
                           !.prev_op = reply[t].op]]
    /\ UNCHANGED <<run, result, ops, del, streamVars, sideVars>>

\* DELETE /v1/chat/messages, Mutation.delete_messages: the whole handler,
\* aget_state and aupdate_state with no other call on the thread in between
DeleteMessages(t, request) ==
    /\ run[t].pc = "idle"
    /\ LET plan == delete_messages(request, MessagesOf(aget_state(t).values))
           log == IF plan.removes = <<>> THEN store[t] ELSE aupdate_state(t, plan.removes)
       IN /\ store' = [store EXCEPT ![t] = log]
          /\ reply' = [reply EXCEPT ![t] = DeleteReply(t, request, plan, None, store[t], log)]
    /\ UNCHANGED <<interrupts, run, result, ops, del, streamVars, sideVars>>

\* the same handler up to its first await: aget_state has been read and the
\* returned dict is decided; with nothing to remove the handler returns
DeleteRead(t, request) ==
    /\ run[t].pc = "idle"
    /\ del[t].pc = "idle"
    /\ LET plan == delete_messages(request, MessagesOf(aget_state(t).values))
       IN IF plan.removes = <<>>
          THEN /\ reply' = [reply EXCEPT ![t] =
                      DeleteReply(t, request, plan, None, store[t], store[t])]
               /\ UNCHANGED del
          ELSE /\ del' = [del EXCEPT ![t] =
                      [pc |-> "update", request |-> request, removes |-> plan.removes,
                       keys |-> plan.keys, deleted |-> plan.deleted,
                       remaining |-> plan.remaining, log |-> store[t]]]
               /\ UNCHANGED reply
    /\ UNCHANGED <<engineVars, streamVars, sideVars>>

\* the handler's aupdate_state, on the thread as it is by then: add_messages
\* raises ValueError for an id that is no longer in the list
DeleteWrite(t) ==
    /\ del[t].pc = "update"
    /\ IF CanMerge(MessagesOf(LatestValues(t, Root)), del[t].removes)
       THEN /\ store' = [store EXCEPT ![t] = aupdate_state(t, del[t].removes)]
            /\ reply' = [reply EXCEPT ![t] =
                   DeleteReply(t, del[t].request, del[t], None, del[t].log,
                               aupdate_state(t, del[t].removes))]
       ELSE /\ reply' = [reply EXCEPT ![t] =
                   DeleteReply(t, del[t].request,
                               [del[t] EXCEPT !.keys = {}, !.deleted = 0, !.remaining = 0],
                               "ValueError", del[t].log, store[t])]
            /\ UNCHANGED store
    /\ del' = [del EXCEPT ![t] = NoDelete]
    /\ UNCHANGED <<interrupts, run, result, ops, streamVars, sideVars>>

\* the service calls on one thread
ServiceStep(t) ==
    \/ ListCheckpoints(t)
    \/ PurgeCheckpoints(t)
    \/ \E request \in DeleteRequests : DeleteMessages(t, request)

(***************************************************************************)
(* Part 6.  Beside the calls: a checkpoint write that fails, a consumer    *)
(* that leaves the event stream, and the review step of the subgraph       *)
(***************************************************************************)
\* the checkpointer's write of the newest checkpoint of the invocation in
\* flight fails. The write runs in the background of the loop (the graphs
\* are invoked with the default durability), so the loop goes on with the
\* state it has in memory
PutFails(t) ==
    /\ run[t].pc # "idle"
    /\ Len(store[t]) > Len(run[t].before)
    /\ lost[t] = {}
    /\ lost' = [lost EXCEPT ![t] = {Len(store[t])}]
    /\ UNCHANGED <<streamVars, engineVars, serviceVars, gr_writing, gr_store, review, sse>>

\* the hand-off graph goes on, except on a thread whose call has failed
LoopAfterPut ==
    /\ \A t \in HoThreads : ~(run[t].pc = "idle" /\ lost[t] # {})
    /\ HandoffsNext

PutFailsNext ==
    \/ LoopAfterPut
    \/ \E t \in HoThreads : PutFails(t)

\* the graph behind the event stream hands a checkpoint to the checkpointer
GrPutBegins ==
    /\ sp_pc \in {"loop", "emit"}
    /\ gr_started
    /\ ~gr_writing
    /\ Len(gr_store) < gr_chunks
    /\ gr_writing' = TRUE
    /\ UNCHANGED <<streamVars, engineVars, serviceVars, lost, gr_store, review, sse>>

\* the write is committed, whether or not the consumer is still there
GrPutCommits ==
    /\ gr_writing
    /\ gr_writing' = FALSE
    /\ gr_store' = Append(gr_store, [state |-> "complete", closed |-> sp_pc = "closed"])
    /\ UNCHANGED <<streamVars, engineVars, serviceVars, lost, review, sse>>

\* variant: closing the stream cancels the write in progress
Disconnect_CancelsPut ==
    /\ sp_pc \in {"loop", "emit", "end"}
    /\ yielded # <<>>
    /\ sp_pc' = "closed"
    /\ gr_writing' = FALSE
    /\ gr_store' = IF gr_writing
                   THEN Append(gr_store, [state |-> "partial", closed |-> TRUE])
                   ELSE gr_store
    /\ UNCHANGED <<yielded, status, events, gr_started, gr_chunks, gr_interrupted>>
    /\ UNCHANGED <<engineVars, serviceVars, lost, review, sse>>

\* the consumer disconnects: the generators are closed where they are
\* suspended. sse_generator returns on GeneratorExit; astream_events
\* catches Exception only, so its handler yields nothing
Disconnect ==
    /\ sp_pc \in {"loop", "emit", "end"}
    /\ yielded # <<>>
    /\ sp_pc' = "closed"
    /\ UNCHANGED <<yielded, status, events, gr_started, gr_chunks, gr_interrupted>>
    /\ UNCHANGED <<engineVars, serviceVars, lost, gr_writing, gr_store, review, sse>>

DisconnectNext ==
    \/ StreamNext
    \/ GrPutBegins
    \/ GrPutCommits
    \/ Disconnect

\* the texts of the review step and their lengths
Analyses == {"brief", "hundred", "merged analysis"}
Decisions == {"approve", "Approve", "edit", "long edit"}
len(text) ==
    CASE text = "brief" -> 5
      [] text = "hundred" -> 100
      [] text = "merged analysis" -> 120
      [] text = "approve" -> 7
      [] text = "Approve" -> 7
      [] text = "edit" -> 4
      [] text = "long edit" -> 130

NoReview ==
    [pc |-> "none", state |-> [question |-> None, analysis |-> None],
     prompt |-> None, resume |-> None, answer |-> [by |-> None, analysis |-> None],
     messages |-> <<>>, asked |-> 0]

\* variant: the comparison with 'approve' ignores the case
_human_review_AnyCase(state, user_decision) ==
    IF user_decision \in {"approve", "Approve"}
    THEN [analysis |-> state.analysis]
    ELSE [analysis |-> user_decision]

\* _human_review after interrupt() returned user_decision
_human_review(state, user_decision) ==
    IF user_decision = "approve"
    THEN [analysis |-> state.analysis]
    ELSE [analysis |-> user_decision]

\* _route_response: Command(goto=...) by the length of the analysis
_route_response(state) ==
    IF len(state.analysis) > 100 THEN "DetailedResponse" ELSE "SimpleResponse"

_simple_response(state) == [by |-> "SimpleResponse", analysis |-> state.analysis]
_detailed_response(state) == [by |-> "DetailedResponse", analysis |-> state.analysis]

\* HumanReview reaches interrupt() without a resume value: the run suspends
\* with the analysis as payload
ReviewSuspends ==
    /\ review.pc = "HumanReview"
    /\ review.resume = None
    /\ review' = [review EXCEPT !.pc = "suspended", !.prompt = review.state.analysis]
    /\ UNCHANGED <<streamVars, engineVars, serviceVars, lost, gr_writing, gr_store, sse>>

\* Command(resume=action): HumanReview is scheduled again
ReviewResumes(action) ==
    /\ review.pc = "suspended"
    /\ review' = [review EXCEPT !.pc = "HumanReview", !.resume = action]
    /\ UNCHANGED <<streamVars, engineVars, serviceVars, lost, gr_writing, gr_store, sse>>

\* HumanReview runs again, interrupt() returns the resume value and the
\* node's update is written to the channel analysis
ReviewReturns ==
    /\ review.pc = "HumanReview"
    /\ review.resume # None
    /\ review' = [review EXCEPT
                     !.pc = "RouteResponse",
                     !.state.analysis = _human_review(review.state, review.resume).analysis]
    /\ UNCHANGED <<streamVars, engineVars, serviceVars, lost, gr_writing, gr_store, sse>>

RouteResponse ==
    /\ review.pc = "RouteResponse"
    /\ review' = [review EXCEPT !.pc = _route_response(review.state)]
    /\ UNCHANGED <<streamVars, engineVars, serviceVars, lost, gr_writing, gr_store, sse>>

SimpleResponse ==
    /\ review.pc = "SimpleResponse"
    /\ review' = [review EXCEPT !.pc = "done", !.answer = _simple_response(review.state)]
    /\ UNCHANGED <<streamVars, engineVars, serviceVars, lost, gr_writing, gr_store, sse>>

DetailedResponse ==
    /\ review.pc = "DetailedResponse"
    /\ review' = [review EXCEPT !.pc = "done", !.answer = _detailed_response(review.state)]
    /\ UNCHANGED <<streamVars, engineVars, serviceVars, lost, gr_writing, gr_store, sse>>

ReviewNext ==
    \/ ReviewSuspends
    \/ \E action \in Decisions : ReviewResumes(action)
    \/ ReviewReturns
    \/ RouteResponse
    \/ SimpleResponse
    \/ DetailedResponse

\* The parent graph after ProcessSubGraph: AddHistoryMessage and END
\* add_messages gives a message without id a fresh uuid
assign_ids(left, right) ==
    LET used == Ids(left) \cup {0}
        top == CHOOSE m \in used : \A x \in used : x <= m
    IN [i \in 1..Len(right) |->
           IF right[i].id = NoId THEN [right[i] EXCEPT !.id = top + i] ELSE right[i]]

\* _add_history_message: {"messages": [state['question'], state['answer']]},
\* the question a HumanMessage and the answer an AIMessage made without id
_add_history_message(state) ==
    <<Write("messages", <<Message("human", None), Message("ai", None)>>)>>

\* variant: the node records the answer only
AddHistoryMessage_AnswerOnly ==
    /\ review.pc = "done"
    /\ review' = [review EXCEPT
                     !.pc = "completed",
                     !.messages = add_messages(@, assign_ids(@, <<Message("ai", None)>>))]
    /\ UNCHANGED <<streamVars, engineVars, serviceVars, lost, gr_writing, gr_store, sse>>

\* the subgraph has ended: its question and answer are written to the parent,
\* AddHistoryMessage runs, its update goes through add_messages and the run
\* ends at END with status completed
AddHistoryMessage ==
    /\ review.pc = "done"
    /\ LET update == _add_history_message(review.state)[1].value
       IN review' = [review EXCEPT
                        !.pc = "completed",
                        !.messages = add_messages(@, assign_ids(@, update))]
    /\ UNCHANGED <<streamVars, engineVars, serviceVars, lost, gr_writing, gr_store, sse>>

\* ainvoke with the next question on the thread, taken up where the subgraph
\* reaches HumanReview with the merged analysis
NextQuestion(question, analysis) ==
    /\ review.pc = "completed"
    /\ review.asked < MaxQuestions
    /\ review' = [review EXCEPT
                     !.pc = "HumanReview", !.asked = @ + 1,
                     !.state = [question |-> question, analysis |-> analysis],
                     !.prompt = None, !.resume = None,
                     !.answer = NoReview.answer]
    /\ UNCHANGED <<streamVars, engineVars, serviceVars, lost, gr_writing, gr_store, sse>>

HistoryNext ==
    \/ ReviewNext
    \/ AddHistoryMessage
    \/ \E question \in PairQuestions, analysis \in Analyses :
          NextQuestion(question, analysis)

\* sse_generator over astream_events: the SSE response of the stream graph.
\* format_sse: the text "event: <type>" / "data: <json of event.data>"
format_sse(event) == <<event.event, <<event.status, event.answer>>>>

SseOpen == [pc |-> "open", out |-> <<>>]

\* the generator of the events runs only when sse_generator asks for the
\* next event: what it yielded before has been passed on
SsePulls ==
    /\ sse.pc = "open"
    /\ Len(sse.out) = Len(yielded)
    /\ StreamNext

\* variant: an exception of the event stream leaves sse_generator
SseError_Propagates ==
    /\ sse.pc = "open"
    /\ sp_pc = "raised"
    /\ sse' = [sse EXCEPT !.pc = "done"]
    /\ UNCHANGED <<streamVars, engineVars, serviceVars, lost, gr_writing, gr_store, review>>

\* lines 27-28: the event received is yielded as SSE text
SseYield ==
    /\ sse.pc = "open"
    /\ Len(sse.out) < Len(yielded)
    /\ sse' = [sse EXCEPT !.out = Append(@, format_sse(yielded[Len(@) + 1]))]
    /\ UNCHANGED <<streamVars, engineVars, serviceVars, lost, gr_writing, gr_store, review>>

\* lines 31-39: an exception that left the event stream is yielded as an
\* error event
SseError ==
    /\ sse.pc = "open"
    /\ sp_pc = "raised"
    /\ sse' = [pc |-> "done", out |-> Append(sse.out, format_sse(StreamEvent(ERROR)))]
    /\ UNCHANGED <<streamVars, engineVars, serviceVars, lost, gr_writing, gr_store, review>>

\* line 27: the event stream is exhausted and sse_generator returns
SseReturn ==
    /\ sse.pc = "open"
    /\ sp_pc = "done"
    /\ Len(sse.out) = Len(yielded)
    /\ sse' = [sse EXCEPT !.pc = "done"]
    /\ UNCHANGED <<streamVars, engineVars, serviceVars, lost, gr_writing, gr_store, review>>

SseNext ==
    \/ SsePulls
    \/ SseYield
    \/ SseError
    \/ SseReturn

SideInit ==
    /\ lost = [t \in Threads |-> {}]
    /\ gr_writing = FALSE
    /\ gr_store = <<>>
    /\ review = NoReview
    /\ sse = SseOpen

\* HumanReview entered with the state of the subgraph drawn from the inputs
ReviewInit ==
    /\ StreamInit /\ EngineInit /\ ServiceInit
    /\ lost = [t \in Threads |-> {}]
    /\ gr_writing = FALSE
    /\ gr_store = <<>>
    /\ sse = SseOpen
    /\ review \in {[NoReview EXCEPT !.pc = "HumanReview", !.asked = 1,
                                    !.state = [question |-> q, analysis |-> a]] :
                      q \in PairQuestions, a \in Analyses}

Init == StreamInit /\ EngineInit /\ ServiceInit /\ SideInit

Next == ExampleNext \/ HandoffsNext

Spec == Init /\ [][Next]_vars

SpecStream == Init /\ [][StreamNext]_vars

\* the service calls on a thread of the hand-off graph, one call at a time
ServiceNext ==
    \/ HandoffsNext
    \/ \E t \in HoThreads : ServiceStep(t)

SpecService == Init /\ [][ServiceNext]_vars

SpecPair == Init /\ [][PairNext]_vars

\* the hand-off graph on its own
SpecHandoffs == Init /\ [][HandoffsNext]_vars

SpecPutFails == Init /\ [][PutFailsNext]_vars

SpecDisconnect == Init /\ [][DisconnectNext]_vars

SpecReview == ReviewInit /\ [][ReviewNext]_vars

SpecSse == Init /\ [][SseNext]_vars

SpecHistory == ReviewInit /\ [][HistoryNext]_vars

SpecLoop == Init /\ [][LoopNext]_vars

\* the hand-off graph with the resume that follows a second suspension
ReentrantNext ==
    \/ HandoffsNext
    \/ \E t \in HoThreads, action \in ResumeActions : HoResumeAgain(t, action)

SpecReentrant == Init /\ [][ReentrantNext]_vars

\* the service calls on the thread of a client of the example graph
ChatNext ==
    \/ ExampleNext
    \/ \E t \in SoloThreads : ServiceStep(t)

SpecChat == Init /\ [][ChatNext]_vars

\* two delete calls on one thread of the hand-off graph at the same time:
\* one is followed across its awaits, the other runs between them; the
\* invocations that build the history run before the first delete call
GraphIdleOfDeletes ==
    /\ \A t \in HoThreads : del[t].pc = "idle" /\ reply[t] = NoReply
    /\ HandoffsNext

\* the whole delete call of another client, between the two awaits of the
\* call that is followed
OtherDelete(t, request) ==
    /\ del[t].pc = "update"
    /\ reply[t] = NoReply
    /\ DeleteMessages(t, request)

\* the call that is followed: the first delete call on the thread
FirstDelete(t, request) ==
    /\ reply[t] = NoReply
    /\ DeleteRead(t, request)

OverlapNext ==
    \/ GraphIdleOfDeletes
    \/ \E t \in HoThreads, request \in DeleteRequests : FirstDelete(t, request)
    \/ \E t \in HoThreads : DeleteWrite(t)
    \/ \E t \in HoThreads, request \in DeleteRequests : OtherDelete(t, request)

SpecOverlap == Init /\ [][OverlapNext]_vars

(***************************************************************************)
(* Part 7.  Properties                                                     *)
(***************************************************************************)
EventsAt(S) == {i \in 1..Len(yielded) : yielded[i].event \in S}

C2_OneTerminalInTotal ==
    Cardinality(EventsAt({INTERRUPT, GRAPH_END})) <= 1

\* C2 (amended): graph_end and error together occur at most once; a
\* graph_end with status interrupted comes after at least one interrupt
\* event, and a graph_end with status completed closes a sequence without
\* any interrupt event.
C2_OneGraphEnd ==
    /\ Cardinality(EventsAt({GRAPH_END, ERROR})) <= 1
    /\ \A i \in EventsAt({GRAPH_END}) :
          /\ yielded[i].status \in {"completed", "interrupted"}
          /\ yielded[i].status = "interrupted" =>
                \E j \in EventsAt({INTERRUPT}) : j < i
          /\ yielded[i].status = "completed" => EventsAt({INTERRUPT}) = {}

C2_Witness ==
    /\ sp_pc = "done"
    /\ \E i \in EventsAt({GRAPH_END}) : yielded[i].status = "interrupted"
    /\ Cardinality(EventsAt({INTERRUPT})) >= 2

\* C3: the sequence begins with graph_start, yielded before the graph stream
\* is entered and before every other event, and graph_start occurs only once.
C3_GraphStartFirstOnce ==
    /\ gr_started => yielded # <<>>
    /\ sp_pc # "start" => yielded # <<>>
    /\ yielded # <<>> => yielded[1].event = GRAPH_START
    /\ EventsAt({GRAPH_START}) \subseteq {1}

C3_Witness ==
    /\ sp_pc = "done"
    /\ yielded[1].event = GRAPH_START
    /\ EventsAt({TOKEN}) # {}
    /\ EventsAt({GRAPH_END}) # {}

Returned(t) == result[t].status # "none"

\* C4: a resume on a thread whose latest checkpoint has no pending interrupt
\* is refused with the no-pending-interrupt error, executes no node and
\* leaves the checkpoint log as it was.
C4_ResumeWithoutInterruptRefused ==
    \A t \in Threads :
        Returned(t) /\ result[t].kind = "resume" /\ result[t].before # <<>>
            /\ ~result[t].pending =>
            /\ result[t].status \in {"error", "raised"}
            /\ result[t].error = "NoPendingInterrupt"
            /\ result[t].nodes = <<>>
            /\ result[t].after = result[t].before

\* C5: while an interrupt raised by a node is pending and the invocation has
\* returned, what the caller got is a result with status interrupted that
\* carries the interrupt's payload, not an exception.
C5_SuspensionReturnsInterrupted ==
    \A t \in Threads :
        run[t].pc = "idle" /\ interrupts[t] # <<>> =>
            /\ result[t].status = "interrupted"
            /\ result[t].error = None
            /\ result[t].interrupt_info.interrupts = interrupts[t]

C5_Witness ==
    \E t \in HoThreads :
        /\ run[t].pc = "idle"
        /\ interrupts[t] = <<[value |-> CONFIRM_PROMPT, task_name |-> "sales_agent"]>>
        /\ result[t].status = "interrupted"
        /\ result[t].kind = "resume"

\* C6: on the example graph an invoke on a fresh thread returns status
\* interrupted with the review prompt, and the resume with 'approve' that
\* follows returns status completed with a non-empty answer.
C6_InterruptThenComplete ==
    \A t \in ExThreads :
        /\ Returned(t) /\ result[t].kind = "invoke" /\ result[t].before = <<>> =>
              /\ result[t].status = "interrupted"
              /\ result[t].interrupt_info # None
        /\ Returned(t) /\ result[t].kind = "resume" /\ result[t].input = "approve"
              /\ result[t].before # <<>> =>
              /\ result[t].status = "completed"
              /\ result[t].answer \notin {None, ""}

NodesOf(t) == IF run[t].pc = "idle" THEN result[t].nodes ELSE run[t].nodes
KindOf(t) == IF run[t].pc = "idle" THEN result[t].kind ELSE run[t].kind
Positions(seq, x) == {i \in 1..Len(seq) : seq[i] = x}

\* C7: MergeAnalyses is scheduled and run only when every AnalyzeWorker
\* branch of the fan-out has finished, and it runs once per invocation, not
\* once per branch.
C7_JoinBarrier ==
    \A t \in ExThreads :
        /\ Cardinality(Positions(NodesOf(t), "MergeAnalyses")) <= 1
        /\ KindOf(t) = "invoke" =>
              \A m \in Positions(NodesOf(t), "MergeAnalyses") :
                  Cardinality({w \in Positions(NodesOf(t), "AnalyzeWorker") : w < m})
                      = Len(ANALYSIS_PERSPECTIVES)
        /\ run[t].pc = "workers" =>
              \A i \in 1..Len(store[t]) :
                  store[t][i].ns = run[t].ns => "MergeAnalyses" \notin store[t][i].next

C7_Witness ==
    \E t \in ExThreads :
        /\ run[t].pc = "idle"
        /\ result[t].kind = "invoke"
        /\ result[t].nodes = <<"AnalyzeWorker", "AnalyzeWorker", "AnalyzeWorker", "MergeAnalyses">>

\* C8: the state MergeAnalyses reads lists the analyses of the branches in
\* the order of ANALYSIS_PERSPECTIVES, whatever order the branches finished in.
C8_MergeInRouterOrder ==
    \A t \in ExThreads : \A i \in 1..Len(store[t]) :
        "MergeAnalyses" \in store[t][i].next =>
            /\ "analyses" \in DOMAIN store[t][i].values
            /\ store[t][i].values["analyses"] =
                  [k \in 1..Len(ANALYSIS_PERSPECTIVES) |->
                      [perspective |-> ANALYSIS_PERSPECTIVES[k],
                       question |-> store[t][i].values["question"]]]

RootSteps(log) == {log[i].step : i \in {j \in 1..Len(log) : log[j].ns = Root}}
\* the largest root step of a log; the empty log counts as step -2
MaxStep(log) ==
    IF RootSteps(log) = {} THEN -2
    ELSE CHOOSE m \in RootSteps(log) : \A x \in RootSteps(log) : x <= m

C10_StepsDistinctInThread ==
    \A t \in Threads : \A i, j \in 1..Len(store[t]) :
        i # j => store[t][i].step # store[t][j].step

\* C10 (amended): the checkpoints of one namespace of a thread (the parent
\* graph, or one run of a subgraph) are totally ordered by step: a later
\* checkpoint of the namespace has a larger step.
C10_StepsOrderedPerNamespace ==
    \A t \in Threads : \A i, j \in 1..Len(store[t]) :
        i < j /\ store[t][i].ns = store[t][j].ns => store[t][i].step < store[t][j].step

C10_Witness ==
    \E t \in ExThreads : \E i, j \in 1..Len(store[t]) :
        /\ store[t][i].ns = Root /\ store[t][j].ns # Root
        /\ store[t][i].step = store[t][j].step
        /\ Cardinality(RootSteps(store[t])) >= 4

\* the messages of the newest root checkpoint of a checkpoint log
HistoryOf(log) ==
    LET root == SelectSeq(log, LAMBDA c : c.ns = Root)
    IN IF root = <<>> THEN <<>> ELSE MessagesOf(root[Len(root)].values)

Distinct(seq) == \A i, j \in 1..Len(seq) : i # j => seq[i] # seq[j]
Range(seq) == {seq[i] : i \in 1..Len(seq)}
Without(messages, ids) == SelectSeq(messages, LAMBDA m : m.id \notin ids)

\* what C11 says of one reply of deleteMessages (remaining as the GraphQL
\* mutation returns it)
DeletedExactlyListed(r) ==
    LET before == HistoryOf(r.before)
        hit == Range(r.request.message_ids) \cap Ids(before)
    IN /\ HistoryOf(r.after) = Without(before, hit)
       /\ DeleteResultType(r).deleted = Cardinality(hit)
       /\ DeleteResultType(r).remaining = Len(before) - Cardinality(hit)

\* C11 (as stated): deleteMessages with a list of distinct ids deletes exactly
\* the messages whose id is in the list and in the history, leaves the others
\* in place, and returns deleted = their number, remaining = totalBefore - deleted.
C11_DeletesListedIds ==
    \A t \in Threads :
        reply[t].op = "delete" /\ reply[t].request.given
            /\ Distinct(reply[t].request.message_ids) => DeletedExactlyListed(reply[t])

\* C11 (amended): the same for a non-empty list of distinct ids; an empty
\* list is handled as an omitted one.
C11_DeletesListedIdsNonEmpty ==
    \A t \in Threads :
        reply[t].op = "delete" /\ reply[t].request.given
            /\ reply[t].request.message_ids # <<>>
            /\ Distinct(reply[t].request.message_ids) =>
                /\ DeletedExactlyListed(reply[t])
                /\ reply[t].keys = {"deleted", "remaining"}
                /\ reply[t].remaining = Len(HistoryOf(reply[t].after))

C11_Witness ==
    \E t \in HoThreads :
        /\ reply[t].op = "delete"
        /\ reply[t].request.message_ids = <<2, 99>>
        /\ reply[t].deleted = 1
        /\ reply[t].remaining >= 2
        /\ Len(HistoryOf(reply[t].after)) = reply[t].remaining

\* C12: deleteMessages with the ids omitted deletes the whole history and
\* returns {deleted, remaining} with deleted = totalBefore and remaining = 0,
\* and the messages channel is empty afterwards.
C12_OmittedIdsDeleteAll ==
    \A t \in Threads :
        reply[t].op = "delete" /\ ~reply[t].request.given =>
            /\ HistoryOf(reply[t].after) = <<>>
            /\ reply[t].deleted = Len(HistoryOf(reply[t].before))
            /\ reply[t].keys = {"deleted", "remaining"}
            /\ reply[t].remaining = 0

\* C13: listCheckpoints never returns two consecutive entries with the same
\* messageCount.
C13_NoEqualNeighbours ==
    \A t \in Threads :
        reply[t].op = "list" =>
            \A k \in 1..(Len(reply[t].checkpoints) - 1) :
                reply[t].checkpoints[k].messages_count
                    # reply[t].checkpoints[k + 1].messages_count

\* the root loop checkpoints of a log, by position
RootLoops(log) == {i \in 1..Len(log) : log[i].ns = Root /\ log[i].source = "loop"}

C13_Witness ==
    \E t \in HoThreads :
        /\ reply[t].op = "list"
        /\ Len(reply[t].checkpoints) >= 3
        /\ Cardinality(RootLoops(reply[t].before)) > Len(reply[t].checkpoints)

\* C14: every entry of listCheckpoints is a root checkpoint with source loop,
\* and a root loop checkpoint is listed exactly when it is the newest one or
\* its message count differs from that of the next newer root loop
\* checkpoint: subgraph checkpoints and input/update checkpoints in between
\* change nothing.
C14_OnlyRootLoopCompared ==
    \A t \in Threads :
        reply[t].op = "list" =>
            LET log == reply[t].before
                listed == {reply[t].checkpoints[k].checkpoint_id :
                              k \in 1..Len(reply[t].checkpoints)}
                Newer(i) == {j \in RootLoops(log) : j > i}
                NextNewer(i) == CHOOSE j \in Newer(i) : \A x \in Newer(i) : j <= x
            IN /\ listed \subseteq RootLoops(log)
               /\ \A i \in RootLoops(log) :
                     i \in listed <=>
                        \/ Newer(i) = {}
                        \/ Len(MessagesOf(log[i].values))
                              # Len(MessagesOf(log[NextNewer(i)].values))

C14_Witness ==
    \E t \in HoThreads :
        /\ reply[t].op = "list"
        /\ \E i, j, u \in 1..Len(reply[t].before) :
              /\ i < u /\ u < j
              /\ {i, j} \subseteq RootLoops(reply[t].before)
              /\ reply[t].before[u].ns = Root /\ reply[t].before[u].source = "update"
              /\ Len(MessagesOf(reply[t].before[i].values))
                    = Len(MessagesOf(reply[t].before[j].values))
              /\ Len(MessagesOf(reply[t].before[u].values))
                    # Len(MessagesOf(reply[t].before[j].values))
              /\ \A k \in 1..Len(reply[t].checkpoints) :
                    reply[t].checkpoints[k].checkpoint_id # i
        /\ \E s \in 1..Len(reply[t].before) : reply[t].before[s].ns # Root

\* C15: listCheckpoints right after purge returns the empty list, whatever
\* checkpoints the thread had.
C15_PurgeThenListEmpty ==
    \A t \in Threads :
        reply[t].op = "list" /\ reply[t].prev_op = "purge"
            /\ reply[t].before = reply[t].prev_after => reply[t].checkpoints = <<>>

C15_Witness ==
    \E t \in HoThreads :
        /\ reply[t].op = "list" /\ reply[t].prev_op = "purge"
        /\ reply[t].before = reply[t].prev_after
        /\ reply[t].checkpoints = <<>>
        /\ RootLoops(reply[t].prev_before) # {}
        /\ \E s \in 1..Len(reply[t].prev_before) : reply[t].prev_before[s].ns # Root
        /\ \E s \in 1..Len(reply[t].prev_before) : reply[t].prev_before[s].source = "update"

\* C16: two threads invoked at the same time on the one compiled example
\* graph do not cross-contaminate: what a returned invoke has written on
\* its thread holds that thread's own question, the thread's values are the
\* ones the same invoke gives on a thread run alone (the question, nothing
\* else, since MergeAnalyses fails), and nothing an other thread does
\* changes the thread's checkpoints afterwards.
C16_NoCrossContamination ==
    \A t \in ExThreads :
        Returned(t) /\ run[t].pc = "idle" =>
            /\ store[t] = result[t].after
            /\ result[t].kind = "invoke" =>
                  /\ LatestValues(t, Root) = [question |-> result[t].input]
                  /\ \A i \in (Len(result[t].before) + 1)..Len(store[t]) :
                        store[t][i].source = "loop" =>
                            store[t][i].values = [question |-> result[t].input]

C16_Witness ==
    /\ Returned("t1") /\ Returned("t2")
    /\ run["t1"].pc = "idle" /\ run["t2"].pc = "idle"
    /\ result["t1"].kind = "invoke" /\ result["t2"].kind = "invoke"
    /\ result["t1"].input = "hello" /\ result["t2"].input = "bye"
    /\ LatestValues("t1", Root) # LatestValues("t2", Root)
    /\ result["t1"].before # <<>>

\* C17: the calls on one thread are serialized: while a delete call is
\* between reading the thread's latest checkpoint and writing the checkpoint
\* derived from it, no other call writes to the thread, so a delete never
\* finds the messages it read already removed.
C17_SerializedPerThread ==
    \A t \in Threads :
        /\ del[t].pc = "update" => store[t] = del[t].log
        /\ reply[t].op = "delete" => reply[t].error = None

\* C18 (as stated): what invoke or resume returns has status completed or
\* interrupted; a completed result carries the answer, an interrupted one
\* the interrupt info.
C18_CompletedOrInterrupted ==
    \A t \in Threads :
        Returned(t) /\ result[t].status # "raised" =>
            /\ result[t].status \in {"completed", "interrupted"}
            /\ result[t].status = "completed" => result[t].answer # None
            /\ result[t].status = "interrupted" =>
                  result[t].interrupt_info.next_nodes # {}

\* C18 (amended): the status is completed, interrupted or error; error is
\* what the hand-off resume returns when the thread has nothing pending, and
\* it carries neither an answer nor interrupt info.
C18_CompletedInterruptedOrError ==
    \A t \in Threads :
        Returned(t) /\ result[t].status # "raised" =>
            /\ result[t].status \in {"completed", "interrupted", "error"}
            /\ result[t].status = "completed" =>
                  result[t].answer # None /\ result[t].interrupt_info = None
            /\ result[t].status = "interrupted" =>
                  result[t].interrupt_info.next_nodes # {} /\ result[t].answer = None
            /\ result[t].status = "error" =>
                  /\ t \in HoThreads /\ result[t].kind = "resume"
                  /\ result[t].answer = None /\ result[t].interrupt_info = None
                  /\ result[t].after = result[t].before
                  /\ \A i \in 1..Len(result[t].before) :
                        result[t].before[i].ns = Root
                            /\ (\A j \in (i + 1)..Len(result[t].before) :
                                   result[t].before[j].ns # Root)
                            => result[t].before[i].next = {}

C18_Witness ==
    \E t \in HoThreads :
        /\ Returned(t)
        /\ result[t].status = "error"
        /\ result[t].before # <<>>
        /\ HistoryOf(result[t].before) # <<>>

\* C19: on a thread without checkpoints listCheckpoints returns the empty
\* list, deleteMessages returns deleted = 0 without raising and writes no
\* checkpoint, and resume ends in an error, not in a completed or
\* interrupted result.
C19_FreshThread ==
    \A t \in Threads :
        /\ reply[t].op = "list" /\ reply[t].before = <<>> =>
              reply[t].checkpoints = <<>> /\ reply[t].error = None
        /\ reply[t].op = "delete" /\ reply[t].before = <<>> =>
              /\ reply[t].deleted = 0 /\ reply[t].error = None
              /\ reply[t].after = <<>>
        /\ Returned(t) /\ result[t].kind = "resume" /\ result[t].before = <<>> =>
              /\ result[t].status \in {"raised", "error"}
              /\ result[t].error # None
              /\ result[t].after = <<>>

C19_Witness ==
    \E t \in SoloThreads :
        /\ store[t] = <<>>
        /\ reply[t].op = "delete" /\ reply[t].before = <<>> /\ reply[t].deleted = 0
        /\ reply[t].prev_op = "list"
        /\ Returned(t) /\ result[t].kind = "resume" /\ result[t].status = "raised"
        /\ ops[t] = 1

Last(seq) == seq[Len(seq)]
\* the checkpoints an invocation wrote in the agents' subgraphs after a model call
ModelCheckpoints(r) ==
    {i \in (Len(r.before) + 1)..Len(r.after) : r.after[i].ns # Root /\ r.after[i].step >= 1}

\* C20: an error of a node ends the invocation with that error, not with a
\* completed or interrupted result; nothing is checkpointed for the step,
\* so the failed node is still the one scheduled; and the node is not run
\* again in the invocation.
C20_NodeErrorAbortsStep ==
    /\ \A t \in ExThreads :
          Returned(t) /\ result[t].nodes # <<>> =>
              /\ result[t].status = "raised" /\ result[t].error = "KeyError"
              /\ Last(result[t].nodes) = "MergeAnalyses"
              /\ Cardinality(Positions(result[t].nodes, "MergeAnalyses")) = 1
              /\ Last(result[t].after).next = {"MergeAnalyses"}
              /\ HistoryOf(result[t].after) = <<>>
              /\ \A i \in 1..Len(result[t].after) :
                    result[t].after[i].ns = Root
                        /\ (\A j \in (i + 1)..Len(result[t].after) :
                               result[t].after[j].ns # Root)
                        => result[t].after[i].next = {"ProcessSubGraph"}
    /\ \A t \in HoThreads :
          Returned(t) /\ result[t].status = "raised" =>
              /\ result[t].error = "ModelError"
              /\ Last(result[t].after).ns # Root
              /\ Last(result[t].after).ns[1] = Last(result[t].nodes)
              /\ Last(result[t].after).next = {"model"}
              /\ Len(result[t].nodes) = 1 + Cardinality(ModelCheckpoints(result[t]))

C20_Witness ==
    /\ \E t \in ExThreads :
          /\ Returned(t) /\ result[t].kind = "invoke" /\ result[t].error = "KeyError"
          /\ Len(result[t].nodes) = 4
    /\ \E t \in HoThreads :
          /\ Returned(t) /\ result[t].error = "ModelError"
          /\ Len(result[t].nodes) >= 2

\* the root checkpoints of a log, and the call a thread is in or was last in
RootOf(log) == SelectSeq(log, LAMBDA c : c.ns = Root)
BeforeOf(t) == IF run[t].pc # "idle" THEN run[t].before ELSE result[t].before
InputOf(t) == IF run[t].pc # "idle" THEN run[t].input ELSE result[t].input
PendingOf(t) == IF run[t].pc # "idle" THEN run[t].pending ELSE result[t].pending
\* the root checkpoints written since the call on the thread began
NewRoot(t) ==
    SelectSeq(SubSeq(store[t], Len(BeforeOf(t)) + 1, Len(store[t])), LAMBDA c : c.ns = Root)

IsTerminalAnswer(m) == m.type = "ai" /\ m.tool_calls = None
\* the tool whose result is the last message of a state, None without one
LastTool(values) ==
    LET messages == MessagesOf(values)
    IN IF Len(messages) >= 2 /\ messages[Len(messages)].type = "tool"
          /\ messages[Len(messages) - 1].type = "ai"
       THEN messages[Len(messages) - 1].tool_calls ELSE None

\* C23: after an agent node finishes, a final answer (an AI message without
\* tool call) as last message routes to END; after a transfer active_agent
\* is the target and the target is what is scheduled; and the agent that
\* runs in a step is the one named by active_agent in the checkpoint before.
C23_RouteAfterAgent ==
    \A t \in HoThreads :
        /\ \A i \in 1..Len(store[t]) :
              LET c == store[t][i]
              IN /\ c.ns = Root /\ c.source = "loop" /\ MessagesOf(c.values) # <<>>
                       /\ IsTerminalAnswer(Last(MessagesOf(c.values))) => c.next = {}
                 /\ c.ns = Root /\ c.source = "loop"
                       /\ LastTool(c.values) \in {"transfer_to_sales", "transfer_to_support"} =>
                       /\ c.values["active_agent"] = TransferTarget(LastTool(c.values))
                       /\ c.next = {c.values["active_agent"]}
                 /\ c.ns # Root =>
                       \E j \in 1..(i - 1) :
                           /\ store[t][j].ns = Root
                           /\ store[t][j].step = c.ns[2] - 1
                           /\ store[t][j].values["active_agent"] = c.ns[1]
        /\ Returned(t) /\ result[t].status = "completed" =>
              IsTerminalAnswer(Last(HistoryOf(result[t].after)))

C23_Witness ==
    \E t \in HoThreads :
        /\ Returned(t) /\ result[t].status = "completed"
        /\ result[t].nodes = <<"sales_agent", "support_agent">>
        /\ aget_state(t).values["active_agent"] = "support_agent"

\* the confirmed or rejected gated hand-offs recorded in a message history:
\* the tool call of transfer_to_support_with_confirm followed by its result
GatedResults(messages) ==
    {i \in 1..(Len(messages) - 1) :
        /\ messages[i].type = "ai"
        /\ messages[i].tool_calls = "transfer_to_support_with_confirm"
        /\ messages[i + 1].type = "tool"}

\* C24: while the interrupt of transfer_to_support_with_confirm is pending
\* the call has returned status interrupted, active_agent is still
\* sales_agent, sales_agent is the pending node and support_agent has not
\* been started for that step; and an invoke never records the result of
\* the gated transfer, which takes a resume.
C24_GatedHandoffWaits ==
    \A t \in HoThreads :
        /\ run[t].pc = "idle" /\ interrupts[t] # <<>> =>
              /\ result[t].status = "interrupted"
              /\ aget_state(t).values["active_agent"] = "sales_agent"
              /\ aget_state(t).next = {"sales_agent"}
              /\ Last(result[t].nodes) = "sales_agent"
              /\ ~HasCheckpoint(t, <<"support_agent", NextStep(t, Root)>>)
        /\ Returned(t) \/ run[t].pc # "idle" =>
              (KindOf(t) = "invoke" =>
                  GatedResults(HistoryOf(store[t])) = GatedResults(HistoryOf(BeforeOf(t))))

C24_Witness ==
    \E t \in HoThreads :
        /\ run[t].pc = "idle" /\ interrupts[t] # <<>>
        /\ result[t].kind = "invoke"
        /\ result[t].before # <<>>
        /\ aget_state(t).values["active_agent"] = "sales_agent"

C26_ReentrantSuspension ==
    \A t \in HoThreads :
        /\ run[t].pc = "idle" /\ Returned(t) /\ result[t].kind = "resume"
              /\ result[t].pending /\ result[t].status = "interrupted" =>
              /\ Len(interrupts[t]) = 1
              /\ result[t].interrupt_info.interrupts = interrupts[t]
              /\ result[t].interrupt_info.next_nodes = aget_state(t).next
              /\ Cardinality(aget_state(t).next) = 1
              /\ Latest(t, AgentNs(t)).next = {"tools"}
              /\ Cardinality(GatedResults(HistoryOf(result[t].after)))
                    = Cardinality(GatedResults(HistoryOf(result[t].before))) + 1
        /\ run[t].pc = "idle" /\ ops[t] > MaxOps =>
              /\ result[t].kind = "resume" /\ result[t].pending
              /\ result[t].status \in {"completed", "interrupted", "raised"}
              /\ result[t].status # "raised" =>
                    Cardinality(GatedResults(HistoryOf(result[t].after)))
                       = Cardinality(GatedResults(HistoryOf(result[t].before))) + 1
              /\ result[t].status = "completed" =>
                    interrupts[t] = <<>> /\ aget_state(t).next = {}

C26_Witness ==
    \E t \in HoThreads :
        /\ run[t].pc = "idle" /\ ops[t] > MaxOps
        /\ result[t].status = "completed"
        /\ Cardinality(GatedResults(HistoryOf(store[t]))) = 2

\* C27: a resume that finds the interrupt pending runs the rest of
\* transfer_to_support_with_confirm once, with the resume value as the
\* result of interrupt(): when the resume returns, exactly one more result
\* of the gated transfer is in the history, and the first checkpoint the
\* resume wrote in the parent graph has the active agent the value decides.
C27_AfterSuspendRunsOnce ==
    \A t \in HoThreads :
        KindOf(t) = "resume" /\ PendingOf(t) =>
            /\ Cardinality(GatedResults(HistoryOf(store[t])))
                  <= Cardinality(GatedResults(HistoryOf(BeforeOf(t)))) + 1
            /\ run[t].pc = "idle" /\ Returned(t) /\ result[t].status # "error" =>
                  /\ Cardinality(GatedResults(HistoryOf(result[t].after)))
                        = Cardinality(GatedResults(HistoryOf(result[t].before))) + 1
                  /\ NewRoot(t)[1].values["active_agent"] =
                        IF InputOf(t) = REJECT THEN "sales_agent" ELSE "support_agent"
                  /\ LastTool(NewRoot(t)[1].values) = "transfer_to_support_with_confirm"

C27_Witness ==
    \E t \in HoThreads :
        /\ run[t].pc = "idle" /\ Returned(t)
        /\ result[t].kind = "resume" /\ result[t].pending
        /\ result[t].status = "interrupted"
        /\ result[t].input = REJECT

\* C28: an invoke on a thread whose stored active_agent is support_agent
\* enters the graph at support_agent.
C28_EntryByStoredAgent ==
    \A t \in HoThreads :
        /\ run[t].pc = "agent_first" /\ run[t].kind = "invoke" /\ run[t].nodes = <<>>
        /\ RootOf(run[t].before) # <<>>
        /\ "active_agent" \in DOMAIN Last(RootOf(run[t].before)).values
        /\ Last(RootOf(run[t].before)).values["active_agent"] = "support_agent"
        => Latest(t, Root).next = {"support_agent"}

\* C29: the state MergeAnalyses reads holds the analyses of the three
\* AnalyzeWorker branches, accumulated by the channel `analyses`.
C29_AnalysesAccumulated ==
    \A t \in ExThreads :
        run[t].pc = "merge" =>
            /\ "analyses" \in DOMAIN LatestValues(t, run[t].ns)
            /\ Len(LatestValues(t, run[t].ns)["analyses"]) = Len(ANALYSIS_PERSPECTIVES)

\* C21: when the write of a checkpoint fails during invoke or resume the
\* call does not return completed or interrupted, and no later step runs
\* on the state of the step whose write failed: the checkpoint that failed
\* is the last one the invocation produced.
C21_FailedWriteStopsTheRun ==
    \A t \in HoThreads :
        /\ Returned(t) /\ run[t].pc = "idle"
              /\ (\E i \in lost[t] : i > Len(result[t].before)) =>
              result[t].status = "raised"
        /\ \A i \in lost[t] : i = Len(store[t])

C30_ReviewAppliesDecision ==
    LET decided == IF review.resume = "approve" THEN review.prompt ELSE review.resume
    IN /\ review.pc \in {"RouteResponse", "SimpleResponse", "DetailedResponse", "done"} =>
             review.state.analysis = decided
       /\ review.pc = "done" =>
             /\ review.answer.analysis = decided
             /\ review.answer.by = IF len(decided) > 100
                                   THEN "DetailedResponse" ELSE "SimpleResponse"

C30_Witness ==
    /\ review.pc = "done"
    /\ review.resume = "Approve"
    /\ review.prompt = "merged analysis"
    /\ review.answer = [by |-> "SimpleResponse", analysis |-> "Approve"]

\* the agent node that ends is the one whose gated transfer was just decided
GatedDone(t) ==
    /\ run[t].pc = "agent_done"
    /\ \E i \in 1..Len(run[t].writes) :
          /\ run[t].writes[i].channel = "messages"
          /\ run[t].writes[i].value[1].tool_calls = "transfer_to_support_with_confirm"

\* C31: when the agent node ends after the gated transfer was resumed, a
\* resume value equal to the rejection value leaves active_agent as it was
\* and schedules the current agent and not support_agent; any other resume
\* value makes active_agent support_agent and schedules support_agent alone;
\* and the agent that starts next is the scheduled one.
C31_GatedTransferByResumeValue ==
    [][\A t \in HoThreads :
          /\ GatedDone(t) /\ run'[t].pc # "agent_done" =>
                /\ run[t].kind = "resume"
                /\ IF run[t].input = REJECT
                   THEN /\ Latest(t, Root)'.values["active_agent"]
                              = Latest(t, Root).values["active_agent"]
                        /\ Latest(t, Root)'.next = {run[t].ns[1]}
                        /\ "support_agent" \notin Latest(t, Root)'.next
                   ELSE /\ Latest(t, Root)'.values["active_agent"] = "support_agent"
                        /\ Latest(t, Root)'.next = {"support_agent"}
          /\ run[t].pc = "agent_first" /\ run'[t].pc \in {"model", "tools"} =>
                Latest(t, Root).next = {run'[t].ns[1]}]_vars

C31_Witness ==
    \E t \in HoThreads :
        /\ run[t].pc = "model" /\ run[t].kind = "resume" /\ run[t].input = REJECT
        /\ run[t].ns[1] = "sales_agent"
        /\ LastTool(Latest(t, Root).values) = "transfer_to_support_with_confirm"
        /\ Latest(t, Root).values["active_agent"] = "sales_agent"

\* state.next as aget_state reads it from a checkpoint log
NextOf(log) == IF RootOf(log) = <<>> THEN {} ELSE Last(RootOf(log)).next

\* C32: a call of aresume on a thread whose state has no next node returns
\* status error, begins no invocation, runs no node and leaves the
\* checkpoint log as it was; a resume that found a next node and returned a
\* result returned completed or interrupted, and ran a node.
C32_ResumeWithoutNextIsError ==
    /\ [][\A t \in HoThreads :
             run[t].pc = "idle" /\ aget_state(t).next = {}
                /\ ops'[t] # ops[t] /\ run'[t].kind # "invoke" =>
                /\ store'[t] = store[t]
                /\ interrupts'[t] = interrupts[t]
                /\ run'[t] = Idle
                /\ result'[t].status = "error"]_vars
    /\ [](\A t \in HoThreads :
             Returned(t) /\ result[t].kind = "resume" /\ result[t].status # "raised" =>
                /\ result[t].status = "error" <=> NextOf(result[t].before) = {}
                /\ result[t].status = "error" =>
                      result[t].nodes = <<>> /\ result[t].after = result[t].before
                /\ result[t].status # "error" =>
                      /\ result[t].status \in {"completed", "interrupted"}
                      /\ result[t].nodes # <<>>)

C32_Witness ==
    \E t \in HoThreads :
        /\ result[t].kind = "resume" /\ result[t].status = "error"
        /\ ops[t] = MaxOps
        /\ RootOf(result[t].before) # <<>>
        /\ NextOf(result[t].before) = {}
        /\ store[t] = result[t].before

\* C33: the status of graph_end is interrupted exactly when an interrupt
\* event was yielded before it in the same sequence and completed exactly
\* when none was, and graph_end carries a non-empty answer only with status
\* completed.
C33_GraphEndStatusMatchesInterrupts ==
    \A i \in EventsAt({GRAPH_END}) :
        LET interrupted == \E j \in EventsAt({INTERRUPT}) : j < i
        IN /\ yielded[i].status = "interrupted" <=> interrupted
           /\ yielded[i].status = "completed" <=> ~interrupted
           /\ yielded[i].answer # "" => yielded[i].status = "completed"

C33_Witness ==
    /\ sp_pc = "done"
    /\ yielded[Len(yielded)] = GraphEndEvent("interrupted", "")
    /\ EventsAt({TOKEN}) # {}
    /\ EventsAt({INTERRUPT}) # {}

\* the positions of an SSE text sequence that hold an event of the types S
SseAt(S) == {i \in 1..Len(sse.out) : sse.out[i][1] \in S}

\* C34: an SSE stream that was consumed to its end holds exactly one
\* graph_end or error event and that event is its last, whether the graph
\* stream failed or the state read after it; and at no time does a
\* graph_end follow an error.
C34_SseEndsWithEndOrError ==
    /\ sse.pc = "done" =>
          /\ sse.out # <<>>
          /\ SseAt({GRAPH_END, ERROR}) = {Len(sse.out)}
    /\ \A i \in SseAt({ERROR}) : \A j \in SseAt({GRAPH_END}) : j < i
    /\ \A i \in SseAt({ERROR}) : i = Len(sse.out)
    /\ Cardinality(SseAt({GRAPH_END})) <= 1

C34_Witness ==
    /\ sse.pc = "done"
    /\ sp_pc = "raised"
    /\ sse.out[Len(sse.out)][1] = ERROR
    /\ SseAt({TOKEN}) # {}
    /\ SseAt({GRAPH_END}) = {}

\* C35: on a thread of the example graph without deletions the channel
\* messages holds two entries, the question and then the answer, for every
\* question whose run has completed: a run that is suspended, resumed or
\* still on its way has added nothing.
C35_TwoMessagesPerCompletedQuestion ==
    LET k == IF review.pc = "completed" THEN review.asked ELSE review.asked - 1
    IN /\ Len(review.messages) = 2 * k
       /\ \A i \in 1..k :
             /\ review.messages[2 * i - 1].type = "human"
             /\ review.messages[2 * i].type = "ai"
       /\ Cardinality(Ids(review.messages)) = Len(review.messages)

C35_Witness ==
    /\ review.pc = "completed"
    /\ review.asked = MaxQuestions
    /\ review.resume # None
    /\ Len(review.messages) = 2 * MaxQuestions

\* C36: for every list of ids handed to adelete_messages, a list that
\* repeats an id included, `deleted` is the number of messages the call
\* removed from the history and `remaining` the number of messages the
\* history holds after it.
C36_CountsMatchHistory ==
    \A t \in Threads :
        reply[t].op = "delete" /\ reply[t].error = None
            /\ reply[t].request.given /\ reply[t].request.message_ids # <<>> =>
            /\ reply[t].deleted
                  = Len(HistoryOf(reply[t].before)) - Len(HistoryOf(reply[t].after))
            /\ reply[t].remaining = Len(HistoryOf(reply[t].after))

\* the messages of a reply's history that the ids of its request do not name
Unlisted(r) == Without(HistoryOf(r.before), Range(r.request.message_ids))

\* C37 (as stated): when a list of ids is supplied, the empty list
\* included, every message whose id is not in the list is still in the
\* history after delete_messages; only an omitted list clears the history.
C37_ClearsOnlyWhenOmitted ==
    \A t \in Threads :
        reply[t].op = "delete" /\ reply[t].error = None /\ reply[t].request.given =>
            \A i \in 1..Len(Unlisted(reply[t])) :
                Unlisted(reply[t])[i] \in Range(HistoryOf(reply[t].after))

\* C37 (amended): an omitted list and the empty list both clear the whole
\* history; after a non-empty list the history is what it was without the
\* messages the list names.
C37_ClearsWhenOmittedOrEmpty ==
    \A t \in Threads :
        reply[t].op = "delete" /\ reply[t].error = None =>
            IF reply[t].request.given /\ reply[t].request.message_ids # <<>>
            THEN HistoryOf(reply[t].after) = Unlisted(reply[t])
            ELSE HistoryOf(reply[t].after) = <<>>

C37_Witness ==
    \E t \in Threads :
        /\ reply[t].op = "delete" /\ reply[t].error = None
        /\ reply[t].request = [given |-> TRUE, message_ids |-> <<>>]
        /\ Len(HistoryOf(reply[t].before)) >= 2
        /\ HistoryOf(reply[t].after) = <<>>

\* C38: a delete call on a thread with a pending interrupt leaves the
\* interrupt and the pending node as they were, and the resume that follows
\* the deletion re-enters the node that was suspended (the tools node of
\* the agent, where interrupt() returns the resume value) before any other
\* node runs.
C38_DeleteKeepsPendingTask ==
    /\ [][\A t \in HoThreads :
             interrupts[t] # <<>> /\ reply'[t] # reply[t] /\ reply'[t].op = "delete" =>
                /\ interrupts'[t] = interrupts[t]
                /\ aget_state(t)'.next = aget_state(t).next]_vars
    /\ [](\A t \in HoThreads :
             run[t].kind = "resume" /\ run[t].pending
                /\ reply[t].op = "delete" /\ reply[t].after = run[t].before
                /\ run[t].nodes = <<>> /\ run[t].pc \notin {"idle", "agent_first"} =>
                run[t].pc = "tools")

\* C39 (as stated): an invoke or resume of the hand-off graph in which no
\* model call fails ends at END or suspended at an interrupt: what it
\* returns is completed or interrupted.
C39_EndsAtEndOrInterrupt ==
    \A t \in HoThreads :
        Returned(t) /\ result[t].status # "error" /\ result[t].error # "ModelError" =>
            result[t].status \in {"completed", "interrupted"}

====
